---- MODULE Spec2Model ----
(***************************************************************************)
(* A model of blocks.algorithms: the StepRule hierarchy and the            *)
(* GradientDescent / DifferentiableCostMinimizer life cycle.               *)
(*                                                                         *)
(* Numbers are exact rationals <<numerator, denominator>> (denominator     *)
(* positive, lowest terms); the inputs are dyadic so that floatX           *)
(* arithmetic on them is exact.  A tensor is the sequence of its elements; *)
(* a scalar is a tensor of length 1 and broadcasts against any tensor.     *)
(* A shared variable is a cell of the heap `shared`, named by its index.   *)
(* A symbolic expression is a record tree, evaluated only when a compiled  *)
(* function is called.                                                     *)
(***************************************************************************)
EXTENDS Integers, Sequences, FiniteSets, TLC

\* ---------------------------------------------------------------- bounds
\* Number of elements of every parameter tensor.
Dim == 2
\* Number of process_batch calls explored.
MaxBatches == 2
\* Number of add_updates / updates-setter / set_value calls explored.
MaxRegistrations == 1
\* Number of initialize calls explored.
MaxInits == 2
\* Number of evaluations of the function compiled from the steps of a rule.
MaxEvals == 3
\* Number of compute_steps calls made directly on one rule instance.
MaxRuleCalls == 2

\* ------------------------------------------------------------- numbers
Abs(x) == IF x < 0 THEN -x ELSE x

RECURSIVE GCD(_, _)
GCD(a, b) == IF b = 0 THEN a ELSE GCD(b, a % b)

\* A float as an exact fraction in lowest terms; a zero denominator stands
\* for the values that are not finite: <<1, 0>> is inf, <<-1, 0>> is -inf
\* and <<0, 0>> is nan.
Rat(n, d) ==
  IF d = 0 THEN <<IF n > 0 THEN 1 ELSE IF n < 0 THEN -1 ELSE 0, 0>>
  ELSE LET g == GCD(Abs(n), Abs(d))
           s == IF d < 0 THEN -1 ELSE 1
       IN  <<(s * n) \div g, (s * d) \div g>>

Whole(n) == <<n, 1>>
NaN == <<0, 0>>
IsNan(x) == x = NaN
IsInf(x) == x[2] = 0 /\ x[1] # 0
Finite(x) == x[2] # 0

\* IEEE arithmetic: inf + inf is inf, inf - inf is nan, and every operation
\* on a nan gives nan.
RAdd(x, y) ==
  IF x[2] # 0 /\ y[2] # 0 THEN Rat(x[1] * y[2] + y[1] * x[2], x[2] * y[2])
  ELSE IF IsNan(x) \/ IsNan(y) THEN NaN
  ELSE IF x[2] # 0 THEN y
  ELSE IF y[2] # 0 \/ x = y THEN x
  ELSE NaN
RSub(x, y) == RAdd(x, <<-y[1], y[2]>>)
RMul(x, y) == Rat(x[1] * y[1], x[2] * y[2])

RDiv(x, y) ==
  IF x[2] = 0 /\ y[2] # 0 /\ y[1] < 0 THEN <<-x[1], 0>>
  ELSE Rat(x[1] * y[2], x[2] * y[1])
\* Every comparison with a nan is false.
RLess(x, y) ==
  IF x[2] # 0 \/ y[2] # 0 THEN x[1] * y[2] < y[1] * x[2]
  ELSE x[1] < y[1] /\ x[1] # 0 /\ y[1] # 0
RLeq(x, y) ==
  IF x[2] # 0 /\ y[2] # 0 THEN x[1] * y[2] <= y[1] * x[2]
  ELSE ~IsNan(x) /\ ~IsNan(y) /\ (x = y \/ RLess(x, y))
RMaximum(x, y) ==
  IF IsNan(x) \/ IsNan(y) THEN NaN ELSE IF RLess(x, y) THEN y ELSE x

\* The square root of a fraction with an exact root; the values the model
\* is run on are chosen so that every root taken is exact.
ISqrt(n) == CHOOSE r \in 0..n : r * r = n
RSqrt(x) ==
  IF x[2] = 0 THEN IF x[1] > 0 THEN x ELSE <<0, 0>>
  ELSE IF x[1] < 0 THEN <<0, 0>>
  ELSE <<ISqrt(x[1]), ISqrt(x[2])>>

RECURSIVE RPow(_, _)
RPow(x, n) == IF n = 0 THEN Whole(1) ELSE RMul(x, RPow(x, n - 1))

\* ------------------------------------------------------------- tensors
Scalar(x) == <<x>>
Full(n, x) == [i \in 1..n |-> x]

\* Elementwise binary operations; a tensor of one element is broadcast.
Broadcast(x, y) == IF Len(x) >= Len(y) THEN Len(x) ELSE Len(y)
At(x, i) == x[IF Len(x) = 1 THEN 1 ELSE i]

TAdd(x, y) == [i \in 1..Broadcast(x, y) |-> RAdd(At(x, i), At(y, i))]
TSub(x, y) == [i \in 1..Broadcast(x, y) |-> RSub(At(x, i), At(y, i))]
TMul(x, y) == [i \in 1..Broadcast(x, y) |-> RMul(At(x, i), At(y, i))]

TDiv(x, y) == [i \in 1..Broadcast(x, y) |-> RDiv(At(x, i), At(y, i))]
TMaximum(x, y) == [i \in 1..Broadcast(x, y) |-> RMaximum(At(x, i), At(y, i))]
TSqr(x) == [i \in 1..Len(x) |-> RMul(x[i], x[i])]
TSqrt(x) == [i \in 1..Len(x) |-> RSqrt(x[i])]

\* tensor.isnan, tensor.isinf, tensor.or_ and tensor.any; x ** n for a whole
\* scalar n that is not negative.
TIsNan(x) == [i \in 1..Len(x) |-> IF IsNan(x[i]) THEN <<1, 1>> ELSE <<0, 1>>]
TIsInf(x) == [i \in 1..Len(x) |-> IF IsInf(x[i]) THEN <<1, 1>> ELSE <<0, 1>>]
TOr(x, y) ==
  [i \in 1..Broadcast(x, y) |->
     IF At(x, i)[1] # 0 \/ At(y, i)[1] # 0 THEN <<1, 1>> ELSE <<0, 1>>]
TAny(x) == <<IF \E i \in 1..Len(x) : x[i][1] # 0 THEN <<1, 1>> ELSE <<0, 1>>>>
TPow(x, n) == [i \in 1..Len(x) |-> RPow(x[i], n[1][1])]

\* Comparisons give a tensor of ones and zeros.
Truth(b) == IF b THEN Whole(1) ELSE Whole(0)
TLt(x, y) == [i \in 1..Broadcast(x, y) |-> Truth(RLess(At(x, i), At(y, i)))]
TGt(x, y) == [i \in 1..Broadcast(x, y) |-> Truth(RLess(At(y, i), At(x, i)))]

\* tensor.switch(cond, ift, iff), element by element.
TSwitch(c, x, y) ==
  LET n == IF Len(c) >= Broadcast(x, y) THEN Len(c) ELSE Broadcast(x, y)
  IN  [i \in 1..n |-> IF At(c, i)[1] # 0 THEN At(x, i) ELSE At(y, i)]

RECURSIVE TSum(_)
TSum(x) == IF x = <<>> THEN Whole(0) ELSE RAdd(Head(x), TSum(Tail(x)))

\* A tensor of Dim * Dim elements is a matrix stored row by row, one of Dim
\* elements a vector, one of a single element a scalar.
Rank(x) == IF Len(x) = 1 THEN 0 ELSE IF Len(x) = Dim * Dim THEN 2 ELSE 1

\* The elements of x in the slice of element i that runs along axis a.
Along(x, a, i) ==
  IF Rank(x) < 2 THEN 1..Len(x)
  ELSE IF a = 0 THEN {j \in 1..Len(x) : (j - 1) % Dim = (i - 1) % Dim}
  ELSE {j \in 1..Len(x) : (j - 1) \div Dim = (i - 1) \div Dim}

RECURSIVE SumOf(_, _)
SumOf(x, S) ==
  IF S = {} THEN Whole(0)
  ELSE LET j == CHOOSE k \in S : TRUE
       IN  RAdd(x[j], SumOf(x, S \ {j}))

\* x.sum(axis=a, keepdims=True), the kept axis broadcast again: every
\* element holds the sum of its slice along a.
TSumAxis(x, a) == [i \in 1..Len(x) |-> SumOf(x, Along(x, a, i))]

\* l2_norm(tensors): the root of the sum of the squares of all elements of
\* all the tensors.
RECURSIVE SumSquares(_)
SumSquares(xs) ==
  IF xs = <<>> THEN Whole(0)
  ELSE RAdd(TSum(TSqr(Head(xs))), SumSquares(Tail(xs)))
L2Norm(xs) == Scalar(RSqrt(SumSquares(xs)))

\* param.get_value() * 0.
ZerosLike(x) == [i \in 1..Len(x) |-> Whole(0)]

\* --------------------------------------------------------- expressions
SharedVar(c) == [op |-> "shared", id |-> c]
Const(v) == [op |-> "const", v |-> v]
Input(n) == [op |-> "input", name |-> n]
Unary(o, x) == [op |-> o, a |-> x]
Binary(o, x, y) == [op |-> o, a |-> x, b |-> y]
Ternary(o, x, y, z) == [op |-> o, a |-> x, b |-> y, c |-> z]
Nary(o, xs) == [op |-> o, list |-> xs]

\* The value of an expression: shared variables are read from the heap st,
\* symbolic inputs from the binding given by the caller.
RECURSIVE Eval(_, _, _)
Eval(e, st, binding) ==
  CASE e.op = "shared" -> st[e.id]
    [] e.op = "const" -> e.v
    [] e.op = "input" -> binding[e.name]
    [] e.op = "add" -> TAdd(Eval(e.a, st, binding), Eval(e.b, st, binding))
    [] e.op = "sub" -> TSub(Eval(e.a, st, binding), Eval(e.b, st, binding))
    [] e.op = "mul" -> TMul(Eval(e.a, st, binding), Eval(e.b, st, binding))
    [] e.op = "sum" -> Scalar(TSum(Eval(e.a, st, binding)))
    [] e.op = "div" -> TDiv(Eval(e.a, st, binding), Eval(e.b, st, binding))
    [] e.op = "maximum" ->
         TMaximum(Eval(e.a, st, binding), Eval(e.b, st, binding))
    [] e.op = "sqr" -> TSqr(Eval(e.a, st, binding))
    [] e.op = "sqrt" -> TSqrt(Eval(e.a, st, binding))
    [] e.op = "lt" -> TLt(Eval(e.a, st, binding), Eval(e.b, st, binding))
    [] e.op = "gt" -> TGt(Eval(e.a, st, binding), Eval(e.b, st, binding))
    [] e.op = "switch" ->
         TSwitch(Eval(e.a, st, binding), Eval(e.b, st, binding),
                 Eval(e.c, st, binding))
    [] e.op = "sum_axis" -> TSumAxis(Eval(e.a, st, binding), e.axis)
    [] e.op = "isnan" -> TIsNan(Eval(e.a, st, binding))
    [] e.op = "isinf" -> TIsInf(Eval(e.a, st, binding))
    [] e.op = "or" -> TOr(Eval(e.a, st, binding), Eval(e.b, st, binding))
    [] e.op = "any" -> TAny(Eval(e.a, st, binding))
    [] e.op = "pow" -> TPow(Eval(e.a, st, binding), Eval(e.b, st, binding))
    [] e.op = "l2_norm" ->
         L2Norm([i \in 1..Len(e.list) |-> Eval(e.list[i], st, binding)])

\* d e / d (shared variable p), element by element; terms that are
\* constantly zero and factors that are constantly one are left out.
Zero == Const(Scalar(Whole(0)))
Unit == Const(Scalar(Whole(1)))
Plus(x, y) == IF x = Zero THEN y ELSE IF y = Zero THEN x
              ELSE Binary("add", x, y)
Times(x, y) == IF x = Zero \/ y = Zero THEN Zero
               ELSE IF x = Unit THEN y ELSE IF y = Unit THEN x
               ELSE Binary("mul", x, y)

RECURSIVE Grad(_, _)
Grad(e, p) ==
  CASE e.op = "shared" -> IF e.id = p THEN Unit ELSE Zero
    [] e.op = "const" -> Zero
    [] e.op = "input" -> Zero
    [] e.op = "add" -> Plus(Grad(e.a, p), Grad(e.b, p))
    [] e.op = "mul" -> Plus(Times(Grad(e.a, p), e.b),
                            Times(e.a, Grad(e.b, p)))
    [] e.op = "sum" -> Grad(e.a, p)

\* tensor.grad(cost, wrt, known_grads): one gradient expression per element
\* of wrt, in the order of wrt.  A known gradient of the summand of the cost
\* replaces the gradient flowing into it.
KnownGradOf(e, known_grads) ==
  IF \E i \in 1..Len(known_grads) : known_grads[i].var = e
  THEN LET i == CHOOSE j \in 1..Len(known_grads) : known_grads[j].var = e
       IN  known_grads[i].grad
  ELSE Unit

TensorGrad(e, wrt, known_grads) ==
  [i \in 1..Len(wrt) |->
     IF e.op = "sum" /\ known_grads # <<>>
     THEN Times(KnownGradOf(e.a, known_grads), Grad(e.a, wrt[i]))
     ELSE Grad(e, wrt[i])]

\* Sequence helpers.
RECURSIVE Dedup(_)
Dedup(s) ==
  IF s = <<>> THEN <<>>
  ELSE LET r == Dedup(SubSeq(s, 1, Len(s) - 1))
           x == s[Len(s)]
       IN  IF \E i \in 1..Len(r) : r[i] = x THEN r ELSE Append(r, x)

Range(s) == {s[i] : i \in 1..Len(s)}

\* The names of the symbolic inputs an expression depends on.
RECURSIVE InputsOf(_)
InputsOf(e) ==
  CASE e.op = "input" -> <<e.name>>
    [] e.op \in {"shared", "const"} -> <<>>
    [] e.op = "sum" -> InputsOf(e.a)
    [] OTHER -> Dedup(InputsOf(e.a) \o InputsOf(e.b))

\* ----------------------------------------------------- compiled functions
Pair(t, v) == [target |-> t, value |-> v]
IsPair(u) == DOMAIN u = {"target", "value"}

\* theano.function(inputs, [], updates=updates): rejects an element that is
\* no (shared variable, expression) pair and a second update of one target.
UpdatesAccepted(updates) ==
  /\ \A i \in 1..Len(updates) : IsPair(updates[i])
  /\ \A i, j \in 1..Len(updates) :
        i # j => updates[i].target # updates[j].target

\* A function that stores its first update before it computes the others.
CallFunctionInOrder(fn, args, st) ==
  LET binding == [n \in Range(fn.inputs) |->
                    args[CHOOSE i \in 1..Len(fn.inputs) : fn.inputs[i] = n]]
      st1 == IF fn.updates = <<>> THEN st
             ELSE [st EXCEPT ![fn.updates[1].target] =
                               Eval(fn.updates[1].value, st, binding)]
  IN  [c \in 1..Len(st) |->
         IF \E i \in 2..Len(fn.updates) : fn.updates[i].target = c
         THEN LET i == CHOOSE j \in 2..Len(fn.updates) :
                          fn.updates[j].target = c
              IN  Eval(fn.updates[i].value, st1, binding)
         ELSE st1[c]]

\* Calling a compiled function: every new value is computed from the heap
\* as it is before the call, then all of them are stored.
CallFunction(fn, args, st) ==
  LET binding == [n \in Range(fn.inputs) |->
                    args[CHOOSE i \in 1..Len(fn.inputs) : fn.inputs[i] = n]]
  IN  [c \in 1..Len(st) |->
         IF \E i \in 1..Len(fn.updates) : fn.updates[i].target = c
         THEN LET i == CHOOSE j \in 1..Len(fn.updates) :
                          fn.updates[j].target = c
              IN  Eval(fn.updates[i].value, st, binding)
         ELSE st[c]]

\* ------------------------------------------------------------ step rules
\* An optional argument: <<>> is None, <<v>> is the value v.
None == <<>>
Some(v) == <<v>>

\* shared_floatx(value): a new shared variable; its name is its index.
NewShared(heap, value) == Append(heap, value)
Newest(heap) == Len(heap)

\* What a call returns: the value or the exception, and the heap it leaves.
Returned(value, heap) == [exc |-> "none", value |-> value, heap |-> heap]
Raised(exc, heap) == [exc |-> exc, value |-> None, heap |-> heap]

\* One entry of an ordered mapping parameter -> expression.
Item(k, v) == [key |-> k, value |-> v]
Keys(m) == [i \in 1..Len(m) |-> m[i].key]
Values(m) == [i \in 1..Len(m) |-> m[i].value]
HasKey(m, k) == \E i \in 1..Len(m) : m[i].key = k
Lookup(m, k) == m[CHOOSE i \in 1..Len(m) : m[i].key = k].value

\* The (steps, updates) tuple of compute_steps, and a bare mapping.
StepsAndUpdates(steps, updates) ==
  [type |-> "tuple", steps |-> steps, updates |-> updates]
BareMapping(m) == [type |-> "OrderedDict", items |-> m]

One == Const(Scalar(Whole(1)))

\* Scale.__init__
ScaleInit(learning_rate, heap) ==
  Returned([kind |-> "Scale", learning_rate |-> Newest(heap) + 1],
           NewShared(heap, Scalar(learning_rate)))

\* A Scale that forgets its learning rate: the step is the previous step.
ScaleComputeStepUnscaled(self, param, previous_step, heap) ==
  Returned([step |-> previous_step, updates |-> <<>>], heap)

\* A Scale that multiplies by the value its cell held when the steps were
\* computed, and not by the cell.
ScaleComputeStepFrozen(self, param, previous_step, heap) ==
  Returned([step |-> Binary("mul", Const(heap[self.learning_rate]),
                            previous_step),
            updates |-> <<>>], heap)

\* Scale.compute_step
ScaleComputeStep(self, param, previous_step, heap) ==
  Returned([step |-> Binary("mul", SharedVar(self.learning_rate),
                            previous_step),
            updates |-> <<>>], heap)

\* BasicMomentum.__init__
BasicMomentumInit(momentum, heap) ==
  Returned([kind |-> "BasicMomentum", momentum |-> Newest(heap) + 1],
           NewShared(heap, Scalar(momentum)))

\* A BasicMomentum whose velocity keeps the previous step alone.
BasicMomentumComputeStepPlain(self, param, previous_step, heap) ==
  LET heap1 == NewShared(heap, ZerosLike(heap[param]))
      velocity == Newest(heap1)
      step == Binary("add", Binary("mul", SharedVar(self.momentum),
                                   SharedVar(velocity)), previous_step)
  IN  Returned([step |-> step, updates |-> <<Pair(velocity, previous_step)>>],
               heap1)

\* A BasicMomentum that keeps every velocity in one cell that exists
\* already, the third of the heap, and makes none.
BasicMomentumComputeStepOneCell(self, param, previous_step, heap) ==
  LET velocity == 3
      step == Binary("add", Binary("mul", SharedVar(self.momentum),
                                   SharedVar(velocity)), previous_step)
  IN  Returned([step |-> step, updates |-> <<Pair(velocity, step)>>], heap)

\* BasicMomentum.compute_step
BasicMomentumComputeStep(self, param, previous_step, heap) ==
  LET heap1 == NewShared(heap, ZerosLike(heap[param]))
      velocity == Newest(heap1)
      step == Binary("add", Binary("mul", SharedVar(self.momentum),
                                   SharedVar(velocity)), previous_step)
  IN  Returned([step |-> step, updates |-> <<Pair(velocity, step)>>], heap1)

\* A Momentum that applies the momentum first and the scale on top of it.
MomentumInitMomentumFirst(learning_rate, momentum, heap) ==
  LET scale == ScaleInit(learning_rate, heap)
      basic_momentum == BasicMomentumInit(momentum, scale.heap)
  IN  Returned([kind |-> "Momentum",
                learning_rate |-> scale.value.learning_rate,
                momentum |-> basic_momentum.value.momentum,
                components |-> <<basic_momentum.value, scale.value>>],
               basic_momentum.heap)

\* Momentum.__init__
MomentumInit(learning_rate, momentum, heap) ==
  LET scale == ScaleInit(learning_rate, heap)
      basic_momentum == BasicMomentumInit(momentum, scale.heap)
  IN  Returned([kind |-> "Momentum",
                learning_rate |-> scale.value.learning_rate,
                momentum |-> basic_momentum.value.momentum,
                components |-> <<scale.value, basic_momentum.value>>],
               basic_momentum.heap)

\* CompositeRule.__init__
CompositeRuleInit(components, heap) ==
  Returned([kind |-> "CompositeRule", components |-> components], heap)

\* AdaDelta.__init__
AdaDeltaInit(decay_rate, epsilon, heap) ==
  IF ~(RLeq(Whole(0), decay_rate) /\ RLeq(decay_rate, Whole(1)))
  THEN Raised("ValueError: decay rate needs to be in [0, 1]", heap)
  ELSE LET heap1 == NewShared(heap, Scalar(decay_rate))
           heap2 == NewShared(heap1, Scalar(epsilon))
       IN  Returned([kind |-> "AdaDelta", decay_rate |-> Newest(heap1),
                     epsilon |-> Newest(heap2)], heap2)

\* AdaDelta.compute_step
AdaDeltaComputeStep(self, param, previous_step, heap) ==
  LET heap1 == NewShared(heap, ZerosLike(heap[param]))
      mean_square_step_tm1 == Newest(heap1)
      heap2 == NewShared(heap1, ZerosLike(heap[param]))
      mean_square_delta_x_tm1 == Newest(heap2)
      decay_rate == SharedVar(self.decay_rate)
      epsilon == SharedVar(self.epsilon)
      mean_square_step_t ==
        Binary("add",
               Binary("mul", decay_rate, SharedVar(mean_square_step_tm1)),
               Binary("mul", Binary("sub", One, decay_rate),
                      Unary("sqr", previous_step)))
      rms_delta_x_tm1 ==
        Unary("sqrt", Binary("add", SharedVar(mean_square_delta_x_tm1),
                             epsilon))
      rms_step_t == Unary("sqrt", Binary("add", mean_square_step_t, epsilon))
      delta_x_t == Binary("mul", Binary("div", rms_delta_x_tm1, rms_step_t),
                          previous_step)
      mean_square_delta_x_t ==
        Binary("add",
               Binary("mul", decay_rate, SharedVar(mean_square_delta_x_tm1)),
               Binary("mul", Binary("sub", One, decay_rate),
                      Unary("sqr", delta_x_t)))
  IN  Returned([step |-> delta_x_t,
                updates |-> <<Pair(mean_square_step_tm1, mean_square_step_t),
                              Pair(mean_square_delta_x_tm1,
                                   mean_square_delta_x_t)>>], heap2)

\* A BasicRMSProp that rejects only a negative max_scaling.
BasicRMSPropInitZeroScaling(decay_rate, max_scaling, heap) ==
  IF ~(RLeq(Whole(0), decay_rate) /\ RLeq(decay_rate, Whole(1)))
  THEN Raised("ValueError: decay rate needs to be in [0, 1]", heap)
  ELSE IF RLess(max_scaling, Whole(0))
  THEN Raised("ValueError: max. scaling needs to be greater than 0", heap)
  ELSE Returned([kind |-> "BasicRMSProp", decay_rate |-> Newest(heap) + 1,
                 epsilon |-> RDiv(Whole(1), max_scaling)],
                NewShared(heap, Scalar(decay_rate)))

\* BasicRMSProp.__init__
BasicRMSPropInit(decay_rate, max_scaling, heap) ==
  IF ~(RLeq(Whole(0), decay_rate) /\ RLeq(decay_rate, Whole(1)))
  THEN Raised("ValueError: decay rate needs to be in [0, 1]", heap)
  ELSE IF RLeq(max_scaling, Whole(0))
  THEN Raised("ValueError: max. scaling needs to be greater than 0", heap)
  ELSE Returned([kind |-> "BasicRMSProp", decay_rate |-> Newest(heap) + 1,
                 epsilon |-> RDiv(Whole(1), max_scaling)],
                NewShared(heap, Scalar(decay_rate)))

\* BasicRMSProp.compute_step
BasicRMSPropComputeStep(self, param, previous_step, heap) ==
  LET heap1 == NewShared(heap, ZerosLike(heap[param]))
      mean_square_step_tm1 == Newest(heap1)
      decay_rate == SharedVar(self.decay_rate)
      mean_square_step_t ==
        Binary("add",
               Binary("mul", decay_rate, SharedVar(mean_square_step_tm1)),
               Binary("mul", Binary("sub", One, decay_rate),
                      Unary("sqr", previous_step)))
      rms_step_t == Binary("maximum", Unary("sqrt", mean_square_step_t),
                           Const(Scalar(self.epsilon)))
  IN  Returned([step |-> Binary("div", previous_step, rms_step_t),
                updates |-> <<Pair(mean_square_step_tm1,
                                   mean_square_step_t)>>], heap1)

\* An RMSProp that scales first and normalises the scaled step.
RMSPropInitScaleFirst(learning_rate, decay_rate, max_scaling, heap) ==
  LET basic_rms_prop == BasicRMSPropInit(decay_rate, max_scaling, heap)
      scale == ScaleInit(learning_rate, basic_rms_prop.heap)
  IN  IF basic_rms_prop.exc # "none" THEN basic_rms_prop
      ELSE Returned([kind |-> "RMSProp",
                     learning_rate |-> scale.value.learning_rate,
                     decay_rate |-> basic_rms_prop.value.decay_rate,
                     components |-> <<scale.value, basic_rms_prop.value>>],
                    scale.heap)

\* RMSProp.__init__
RMSPropInit(learning_rate, decay_rate, max_scaling, heap) ==
  LET basic_rms_prop == BasicRMSPropInit(decay_rate, max_scaling, heap)
      scale == ScaleInit(learning_rate, basic_rms_prop.heap)
  IN  IF basic_rms_prop.exc # "none" THEN basic_rms_prop
      ELSE Returned([kind |-> "RMSProp",
                     learning_rate |-> scale.value.learning_rate,
                     decay_rate |-> basic_rms_prop.value.decay_rate,
                     components |-> <<basic_rms_prop.value, scale.value>>],
                    scale.heap)

\* StepClipping.__init__: `if threshold:` is false for None and for 0, and
\* then the instance has no threshold attribute.
StepClippingInit(threshold, heap) ==
  IF threshold # None /\ threshold[1] # Whole(0)
  THEN Returned([kind |-> "StepClipping",
                 threshold |-> Some(Newest(heap) + 1)],
                NewShared(heap, Scalar(threshold[1])))
  ELSE Returned([kind |-> "StepClipping", threshold |-> None], heap)

\* A StepClipping that clips the step of each parameter by its own norm.
StepClippingComputeStepsSeparately(self, previous_steps, heap) ==
  IF self.threshold = None
  THEN Returned(BareMapping(previous_steps), heap)
  ELSE LET threshold == SharedVar(self.threshold[1])
           norm(i) == Nary("l2_norm", <<previous_steps[i].value>>)
           steps == [i \in 1..Len(previous_steps) |->
                       Item(previous_steps[i].key,
                            Binary("mul", previous_steps[i].value,
                                   Ternary("switch",
                                           Binary("lt", norm(i), threshold),
                                           One,
                                           Binary("div", threshold,
                                                  norm(i)))))]
       IN  Returned(StepsAndUpdates(steps, <<>>), heap)

\* StepClipping.compute_steps
StepClippingComputeSteps(self, previous_steps, heap) ==
  IF self.threshold = None
  THEN Returned(BareMapping(previous_steps), heap)
  ELSE LET threshold == SharedVar(self.threshold[1])
           norm == Nary("l2_norm", Values(previous_steps))
           multiplier == Ternary("switch", Binary("lt", norm, threshold),
                                 One, Binary("div", threshold, norm))
           steps == [i \in 1..Len(previous_steps) |->
                       Item(previous_steps[i].key,
                            Binary("mul", previous_steps[i].value,
                                   multiplier))]
       IN  Returned(StepsAndUpdates(steps, <<>>), heap)

\* The number of elements an expression evaluates to; a tensor of one
\* element is a scalar (ndim 0), one of Dim * Dim elements a matrix (ndim 2),
\* any other a vector (ndim 1).
RECURSIVE Size(_, _)
Size(e, heap) ==
  CASE e.op = "shared" -> Len(heap[e.id])
    [] e.op = "const" -> Len(e.v)
    [] e.op = "input" -> 1
    [] e.op \in {"sum", "l2_norm", "any"} -> 1
    [] e.op \in {"sqr", "sqrt", "isnan", "isinf", "sum_axis"} ->
         Size(e.a, heap)
    [] e.op = "switch" ->
         LET x == Size(e.a, heap)
             y == Size(e.b, heap)
             z == Size(e.c, heap)
         IN  IF x > 1 THEN x ELSE IF y > 1 THEN y ELSE z
    [] OTHER ->
         LET x == Size(e.a, heap)
             y == Size(e.b, heap)
         IN  IF x > 1 THEN x ELSE y

Ndim(e, heap) ==
  IF Size(e, heap) = 1 THEN 0 ELSE IF Size(e, heap) = Dim * Dim THEN 2 ELSE 1

\* sorted(self.axis)
RECURSIVE Sorted(_)
Sorted(S) ==
  IF S = {} THEN <<>>
  ELSE LET m == CHOOSE x \in S : \A y \in S : x <= y
       IN  <<m>> \o Sorted(S \ {m})

\* A VariableClipping that takes an axis given twice as given once.
VariableClippingInitLenient(threshold, axis, heap) ==
  LET packed == IF axis # None THEN axis[1] ELSE <<>>
      heap1 == NewShared(heap, Scalar(threshold))
  IN  Returned([kind |-> "VariableClipping", axis |-> Range(packed),
                threshold |-> Newest(heap1)], heap1)

\* VariableClipping.__init__: axis is None or the packed sequence of axes.
VariableClippingInit(threshold, axis, heap) ==
  LET packed == IF axis # None THEN axis[1] ELSE <<>>
      heap1 == NewShared(heap, Scalar(threshold))
  IN  IF Len(packed) # Cardinality(Range(packed))
      THEN Raised("ValueError: axis must be unique", heap1)
      ELSE Returned([kind |-> "VariableClipping", axis |-> Range(packed),
                     threshold |-> Newest(heap1)], heap1)

\* reduce(lambda t, a: t.sum(axis=a, keepdims=True), sorted(self.axis), t)
RECURSIVE SumOverAxes(_, _)
SumOverAxes(axes, t) ==
  IF axes = <<>> THEN t
  ELSE SumOverAxes(Tail(axes), [op |-> "sum_axis", a |-> t,
                                axis |-> Head(axes)])

\* A VariableClipping that clips the previous step and not the value the
\* parameter has after it.
VariableClippingComputeStepRaw(self, param, previous_step, heap) ==
  IF \E ax \in self.axis : ax >= Ndim(previous_step, heap)
  THEN Raised("ValueError: Invalid axis", heap)
  ELSE LET threshold == SharedVar(self.threshold)
           norms == IF Cardinality(self.axis) = 0
                    THEN Nary("l2_norm", <<previous_step>>)
                    ELSE Unary("sqrt", SumOverAxes(Sorted(self.axis),
                                                   Unary("sqr", previous_step)))
           shrinking_step ==
             Binary("mul", Binary("div", threshold, norms), previous_step)
       IN  Returned([step |-> Ternary("switch",
                                      Binary("gt", norms, threshold),
                                      shrinking_step, previous_step),
                     updates |-> <<>>], heap)

\* VariableClipping.compute_step
VariableClippingComputeStep(self, param, previous_step, heap) ==
  IF \E ax \in self.axis : ax >= Ndim(previous_step, heap)
  THEN Raised("ValueError: Invalid axis", heap)
  ELSE LET diff == Binary("sub", SharedVar(param), previous_step)
           threshold == SharedVar(self.threshold)
           norms == IF Cardinality(self.axis) = 0
                    THEN Nary("l2_norm", <<diff>>)
                    ELSE Unary("sqrt", SumOverAxes(Sorted(self.axis),
                                                   Unary("sqr", diff)))
           shrinking_step ==
             Binary("sub", SharedVar(param),
                    Binary("mul", Binary("div", threshold, norms), diff))
       IN  Returned([step |-> Ternary("switch",
                                      Binary("gt", norms, threshold),
                                      shrinking_step, previous_step),
                     updates |-> <<>>], heap)

\* AdaGrad.__init__
AdaGradInit(learning_rate, epsilon, heap) ==
  Returned([kind |-> "AdaGrad", learning_rate |-> learning_rate,
            epsilon |-> epsilon], heap)

\* An AdaGrad whose step divides by the root of the sum kept so far, the
\* square of the current previous step left out.
AdaGradComputeStepStale(self, param, previous_step, heap) ==
  LET heap1 == NewShared(heap, ZerosLike(heap[param]))
      ssq == Newest(heap1)
      ssq_t == Binary("add", Unary("sqr", previous_step), SharedVar(ssq))
      step == Binary("div",
                     Binary("mul", Const(Scalar(self.learning_rate)),
                            previous_step),
                     Binary("add", Unary("sqrt", SharedVar(ssq)),
                            Const(Scalar(self.epsilon))))
  IN  Returned([step |-> step, updates |-> <<Pair(ssq, ssq_t)>>], heap1)

\* AdaGrad.compute_step
AdaGradComputeStep(self, param, previous_step, heap) ==
  LET heap1 == NewShared(heap, ZerosLike(heap[param]))
      ssq == Newest(heap1)
      ssq_t == Binary("add", Unary("sqr", previous_step), SharedVar(ssq))
      step == Binary("div",
                     Binary("mul", Const(Scalar(self.learning_rate)),
                            previous_step),
                     Binary("add", Unary("sqrt", ssq_t),
                            Const(Scalar(self.epsilon))))
  IN  Returned([step |-> step, updates |-> <<Pair(ssq, ssq_t)>>], heap1)

\* Adam.__init__
AdamInit(learning_rate, beta1, beta2, epsilon, decay_factor, heap) ==
  Returned([kind |-> "Adam", learning_rate |-> learning_rate,
            beta1 |-> beta1, beta2 |-> beta2, epsilon |-> epsilon,
            decay_factor |-> decay_factor], heap)

\* An Adam whose mean is averaged with the weight 1 - (1 - beta1), the
\* decay of the weight with time left out.
AdamComputeStepNoDecay(self, param, previous_step, heap) ==
  LET heap1 == NewShared(heap, ZerosLike(heap[param]))
      mean == Newest(heap1)
      heap2 == NewShared(heap1, ZerosLike(heap[param]))
      variance == Newest(heap2)
      heap3 == NewShared(heap2, Scalar(Whole(0)))
      time == Newest(heap3)
      K(x) == Const(Scalar(x))
      t1 == Binary("add", SharedVar(time), One)
      learning_rate ==
        Binary("div",
               Binary("mul", K(self.learning_rate),
                      Unary("sqrt",
                            Binary("sub", One,
                                   Binary("pow",
                                          K(RSub(Whole(1), self.beta2)),
                                          t1)))),
               Binary("sub", One,
                      Binary("pow", K(RSub(Whole(1), self.beta1)), t1)))
      beta_1t == Binary("sub", One, K(RSub(Whole(1), self.beta1)))
      mean_t == Binary("add", Binary("mul", beta_1t, previous_step),
                       Binary("mul", Binary("sub", One, beta_1t),
                              SharedVar(mean)))
      variance_t ==
        Binary("add", Binary("mul", K(self.beta2),
                             Unary("sqr", previous_step)),
               Binary("mul", K(RSub(Whole(1), self.beta2)),
                      SharedVar(variance)))
      step == Binary("div", Binary("mul", learning_rate, mean_t),
                     Binary("add", Unary("sqrt", variance_t),
                            K(self.epsilon)))
  IN  Returned([step |-> step,
                updates |-> <<Pair(mean, mean_t), Pair(variance, variance_t),
                              Pair(time, t1)>>], heap3)

\* An Adam with one clock for all parameters: the time is kept in a cell
\* that exists already, the third of the heap.
AdamComputeStepOneClock(self, param, previous_step, heap) ==
  LET heap1 == NewShared(heap, ZerosLike(heap[param]))
      mean == Newest(heap1)
      heap2 == NewShared(heap1, ZerosLike(heap[param]))
      variance == Newest(heap2)
      heap3 == heap2
      time == 3
      K(x) == Const(Scalar(x))
      t1 == Binary("add", SharedVar(time), One)
      learning_rate ==
        Binary("div",
               Binary("mul", K(self.learning_rate),
                      Unary("sqrt",
                            Binary("sub", One,
                                   Binary("pow",
                                          K(RSub(Whole(1), self.beta2)),
                                          t1)))),
               Binary("sub", One,
                      Binary("pow", K(RSub(Whole(1), self.beta1)), t1)))
      beta_1t ==
        Binary("sub", One,
               Binary("mul", K(RSub(Whole(1), self.beta1)),
                      Binary("pow", K(self.decay_factor),
                             Binary("sub", t1, One))))
      mean_t == Binary("add", Binary("mul", beta_1t, previous_step),
                       Binary("mul", Binary("sub", One, beta_1t),
                              SharedVar(mean)))
      variance_t ==
        Binary("add", Binary("mul", K(self.beta2),
                             Unary("sqr", previous_step)),
               Binary("mul", K(RSub(Whole(1), self.beta2)),
                      SharedVar(variance)))
      step == Binary("div", Binary("mul", learning_rate, mean_t),
                     Binary("add", Unary("sqrt", variance_t),
                            K(self.epsilon)))
  IN  Returned([step |-> step,
                updates |-> <<Pair(mean, mean_t), Pair(variance, variance_t),
                              Pair(time, t1)>>], heap3)

\* Adam.compute_step
AdamComputeStep(self, param, previous_step, heap) ==
  LET heap1 == NewShared(heap, ZerosLike(heap[param]))
      mean == Newest(heap1)
      heap2 == NewShared(heap1, ZerosLike(heap[param]))
      variance == Newest(heap2)
      heap3 == NewShared(heap2, Scalar(Whole(0)))
      time == Newest(heap3)
      K(x) == Const(Scalar(x))
      t1 == Binary("add", SharedVar(time), One)
      learning_rate ==
        Binary("div",
               Binary("mul", K(self.learning_rate),
                      Unary("sqrt",
                            Binary("sub", One,
                                   Binary("pow",
                                          K(RSub(Whole(1), self.beta2)),
                                          t1)))),
               Binary("sub", One,
                      Binary("pow", K(RSub(Whole(1), self.beta1)), t1)))
      beta_1t ==
        Binary("sub", One,
               Binary("mul", K(RSub(Whole(1), self.beta1)),
                      Binary("pow", K(self.decay_factor),
                             Binary("sub", t1, One))))
      mean_t == Binary("add", Binary("mul", beta_1t, previous_step),
                       Binary("mul", Binary("sub", One, beta_1t),
                              SharedVar(mean)))
      variance_t ==
        Binary("add", Binary("mul", K(self.beta2),
                             Unary("sqr", previous_step)),
               Binary("mul", K(RSub(Whole(1), self.beta2)),
                      SharedVar(variance)))
      step == Binary("div", Binary("mul", learning_rate, mean_t),
                     Binary("add", Unary("sqrt", variance_t),
                            K(self.epsilon)))
  IN  Returned([step |-> step,
                updates |-> <<Pair(mean, mean_t), Pair(variance, variance_t),
                              Pair(time, t1)>>], heap3)

\* RemoveNotFinite.__init__
RemoveNotFiniteInit(scaler, heap) ==
  Returned([kind |-> "RemoveNotFinite", scaler |-> scaler], heap)

\* A RemoveNotFinite that replaces only the elements that are not finite.
RemoveNotFiniteComputeStepElementwise(self, param, previous_step, heap) ==
  LET not_finite == Binary("or", Unary("isnan", previous_step),
                           Unary("isinf", previous_step))
      step == Ternary("switch", not_finite,
                      Binary("mul", Const(Scalar(self.scaler)),
                             SharedVar(param)),
                      previous_step)
  IN  Returned([step |-> step, updates |-> <<>>], heap)

\* A RemoveNotFinite that looks for nan only and lets infinite steps pass.
RemoveNotFiniteComputeStepNanOnly(self, param, previous_step, heap) ==
  LET not_finite == Unary("any", Unary("isnan", previous_step))
      step == Ternary("switch", not_finite,
                      Binary("mul", Const(Scalar(self.scaler)),
                             SharedVar(param)),
                      previous_step)
  IN  Returned([step |-> step, updates |-> <<>>], heap)

\* RemoveNotFinite.compute_step
RemoveNotFiniteComputeStep(self, param, previous_step, heap) ==
  LET not_finite == Unary("any", Binary("or", Unary("isnan", previous_step),
                                        Unary("isinf", previous_step)))
      step == Ternary("switch", not_finite,
                      Binary("mul", Const(Scalar(self.scaler)),
                             SharedVar(param)),
                      previous_step)
  IN  Returned([step |-> step, updates |-> <<>>], heap)

\* Restrict.__init__: variables is the collection as given; the frozenset
\* made of it iterates in an order of its own, order.
RestrictInit(step_rule, variables, order, heap) ==
  Returned([kind |-> "Restrict", step_rule |-> step_rule,
            variables |-> Range(variables), order |-> order], heap)

\* blocks.utils.dict_subset(dict_, keys): the entries of dict_ for keys, in
\* the iteration order of keys.
DictSubset(dict_, keys) ==
  IF \E i \in 1..Len(keys) : ~HasKey(dict_, keys[i])
  THEN [exc |-> "KeyError", value |-> None]
  ELSE [exc |-> "none",
        value |-> [i \in 1..Len(keys) |->
                     Item(keys[i], Lookup(dict_, keys[i]))]]

\* rule.compute_step(param, previous_step), by the class of rule; the
\* classes that define none inherit StepRule.compute_step.
ComputeStep(rule, param, previous_step, heap) ==
  CASE rule.kind = "Scale" ->
         ScaleComputeStep(rule, param, previous_step, heap)
    [] rule.kind = "BasicMomentum" ->
         BasicMomentumComputeStep(rule, param, previous_step, heap)
    [] rule.kind = "AdaDelta" ->
         AdaDeltaComputeStep(rule, param, previous_step, heap)
    [] rule.kind = "BasicRMSProp" ->
         BasicRMSPropComputeStep(rule, param, previous_step, heap)
    [] rule.kind = "VariableClipping" ->
         VariableClippingComputeStep(rule, param, previous_step, heap)
    [] rule.kind = "AdaGrad" ->
         AdaGradComputeStep(rule, param, previous_step, heap)
    [] rule.kind = "Adam" ->
         AdamComputeStep(rule, param, previous_step, heap)
    [] rule.kind = "RemoveNotFinite" ->
         RemoveNotFiniteComputeStep(rule, param, previous_step, heap)
    [] OTHER -> Raised("NotImplementedError", heap)

\* [self.compute_step(param, previous_steps[param])
\*  for param in previous_steps], from entry i on.
RECURSIVE ParameterWise(_, _, _, _)
Collected(one, rest) ==
  IF rest.exc # "none" THEN rest
  ELSE Returned(<<one.value>> \o rest.value, rest.heap)

ParameterWiseFrom(self, previous_steps, i, one) ==
  IF one.exc # "none" THEN one
  ELSE Collected(one, ParameterWise(self, previous_steps, i + 1, one.heap))

ParameterWise(self, previous_steps, i, heap) ==
  IF i > Len(previous_steps) THEN Returned(<<>>, heap)
  ELSE ParameterWiseFrom(self, previous_steps, i,
                         ComputeStep(self, previous_steps[i].key,
                                     previous_steps[i].value, heap))

\* list(itertools.chain(*updates))
RECURSIVE Chain(_)
Chain(lists) == IF lists = <<>> THEN <<>>
                ELSE Head(lists) \o Chain(Tail(lists))

\* StepRule.compute_steps: with no parameter, equizip() yields nothing and
\* the unpacking into (steps, updates) fails.
Unzipped(previous_steps, parameter_wise) ==
  IF parameter_wise.exc # "none" THEN parameter_wise
  ELSE IF parameter_wise.value = <<>>
  THEN Raised("ValueError: need more than 0 values to unpack",
              parameter_wise.heap)
  ELSE Returned(
         StepsAndUpdates(
           [i \in 1..Len(parameter_wise.value) |->
              Item(Keys(previous_steps)[i], parameter_wise.value[i].step)],
           Chain([i \in 1..Len(parameter_wise.value) |->
                    parameter_wise.value[i].updates])),
         parameter_wise.heap)

StepRuleComputeSteps(self, previous_steps, heap) ==
  Unzipped(previous_steps, ParameterWise(self, previous_steps, 1, heap))

RECURSIVE ComputeSteps(_, _, _)

\* The loop of CompositeRule.compute_steps from component i on.  A returned
\* mapping is unpacked into its keys: two keys are needed, and the second,
\* a shared variable, is then no list to extend updates with.
RECURSIVE CompositeLoop(_, _, _, _, _)
CompositeLoop(components, i, steps, updates, heap) ==
  IF i > Len(components)
  THEN Returned(StepsAndUpdates(steps, updates), heap)
  ELSE LET r == ComputeSteps(components[i], steps, heap)
       IN  IF r.exc # "none" THEN r
           ELSE IF r.value.type = "tuple"
           THEN CompositeLoop(components, i + 1, r.value.steps,
                              updates \o r.value.updates, r.heap)
           ELSE IF Len(r.value.items) # 2
           THEN Raised("ValueError: values to unpack", r.heap)
           ELSE Raised("ValueError: length not known", r.heap)

\* CompositeRule.compute_steps
CompositeRuleComputeSteps(self, previous_steps, heap) ==
  CompositeLoop(self.components, 1, previous_steps, <<>>, heap)

\* Restrict.compute_steps
RestrictComputeSteps(self, previous_steps, heap) ==
  LET filtered_previous_steps == DictSubset(previous_steps, self.order)
  IN  IF filtered_previous_steps.exc # "none"
      THEN Raised(filtered_previous_steps.exc, heap)
      ELSE LET r == ComputeSteps(self.step_rule,
                                 filtered_previous_steps.value, heap)
           IN  IF r.exc # "none" THEN r
               ELSE IF r.value.type # "tuple"
               THEN IF Len(r.value.items) # 2
                    THEN Raised("ValueError: values to unpack", r.heap)
                    ELSE Raised("TypeError: not a container", r.heap)
               ELSE LET steps == r.value.steps
                        actual ==
                          [i \in 1..Len(previous_steps) |->
                             LET param == previous_steps[i].key
                             IN  IF HasKey(steps, param)
                                 THEN Item(param, Lookup(steps, param))
                                 ELSE previous_steps[i]]
                    IN  Returned(StepsAndUpdates(actual, r.value.updates),
                                 r.heap)

\* rule.compute_steps(previous_steps), by the class of rule.
ComputeSteps(rule, previous_steps, heap) ==
  CASE rule.kind \in {"CompositeRule", "Momentum", "RMSProp"} ->
         CompositeRuleComputeSteps(rule, previous_steps, heap)
    [] rule.kind = "StepClipping" ->
         StepClippingComputeSteps(rule, previous_steps, heap)
    [] rule.kind = "Restrict" ->
         RestrictComputeSteps(rule, previous_steps, heap)
    [] OTHER -> StepRuleComputeSteps(rule, previous_steps, heap)

\* ------------------------------------------------------------ the state
VARIABLES
  shared,             \* the heap of shared variables: index -> tensor
  rule,               \* the step rule the caller built: None or Some(rule)
  made,               \* the constructor call that built it, and the heap then
  constructed,        \* whether a GradientDescent object exists
  cost,               \* self.cost
  params,             \* self.params
  _updates,           \* self._updates
  gradients,          \* self.gradients
  step_rule,          \* self.step_rule
  steps,              \* self.steps
  step_rule_updates,  \* self.step_rule_updates
  _function,          \* self._function: None until compiled
  last,               \* the last call made and how it ended
  hist,               \* the heap before, and the batch of, each batch processed
  ret,                \* what the last direct compute_steps call returned
  nbatch, nreg, ninit, ncalls,
  rng,                \* the states of the RandomState objects of the caller
  numpy_random        \* the state of the global generator numpy.random

vars == <<shared, rule, made, constructed, cost, params, _updates, gradients,
          step_rule, steps, step_rule_updates, _function, last, hist, ret,
          nbatch, nreg, ninit, ncalls, rng, numpy_random>>

random == <<rng, numpy_random>>

algorithm == <<constructed, cost, params, _updates, gradients, step_rule,
               steps, step_rule_updates, _function>>

\* The shared variables of the caller: two parameters and the statistic of
\* a collaborator that registers an extra update.
W == 1
V == 2
Stat == 3

Half == Rat(1, 2)
Ramp(k) == [i \in 1..Dim |-> Whole(k + i - 1)]

\* --------------------------------------------- DifferentiableCostMinimizer
\* ComputationGraph(cost).inputs: the names of the distinct symbolic inputs.
Inputs(c) == InputsOf(c)

\* An add_updates that also looks at the elements and takes only pairs.
AddUpdatesCallPairsOnly(self_updates, updates) ==
  IF updates.type \in {"list", "OrderedDict"}
     /\ \A i \in 1..Len(updates.items) : IsPair(updates.items[i])
  THEN [exc |-> "none", updates |-> self_updates \o updates.items]
  ELSE [exc |-> "ValueError", updates |-> self_updates]

\* add_updates(updates): the new self._updates, or the exception.
AddUpdatesCall(self_updates, updates) ==
  LET as_list == IF updates.type = "OrderedDict"
                 THEN [type |-> "list", items |-> updates.items]
                 ELSE updates
  IN  IF as_list.type # "list"
      THEN [exc |-> "ValueError", updates |-> self_updates]
      ELSE [exc |-> "none", updates |-> self_updates \o as_list.items]

\* --------------------------------------------------------- GradientDescent
\* The part of initialize() that extends all_updates, which is the very
\* list self._updates: the pairs of the parameters up to the first one that
\* self.steps does not hold, then, if none is missing, the rule's updates.
RECURSIVE ParamUpdates(_, _)
ParamUpdates(ps, st) ==
  IF ps = <<>> \/ ~HasKey(st, Head(ps)) THEN <<>>
  ELSE <<Pair(Head(ps), Binary("sub", SharedVar(Head(ps)),
                               Lookup(st, Head(ps))))>>
       \o ParamUpdates(Tail(ps), st)

\* The registered updates put last instead of first.
AllUpdatesExtrasLast(self_updates, ps, st, rule_updates) ==
  ParamUpdates(ps, st) \o rule_updates \o self_updates

AllUpdates(self_updates, ps, st, rule_updates) ==
  self_updates \o ParamUpdates(ps, st) \o rule_updates

\* An initialize() that drops the compiled function when it fails.
InitializeCallForgetful(self_updates, ps, st, rule_updates, inputs, function) ==
  IF \E i \in 1..Len(ps) : ~HasKey(st, ps[i])
  THEN [exc |-> "KeyError",
        updates |-> self_updates \o ParamUpdates(ps, st),
        function |-> None]
  ELSE LET all_updates == AllUpdates(self_updates, ps, st, rule_updates)
       IN  IF UpdatesAccepted(all_updates)
           THEN [exc |-> "none", updates |-> all_updates,
                 function |-> Some([inputs |-> inputs,
                                    updates |-> all_updates])]
           ELSE [exc |-> "theano.function", updates |-> all_updates,
                 function |-> None]

\* initialize(): the exception, self._updates and self._function it leaves.
InitializeCall(self_updates, ps, st, rule_updates, inputs, function) ==
  IF \E i \in 1..Len(ps) : ~HasKey(st, ps[i])
  THEN [exc |-> "KeyError",
        updates |-> self_updates \o ParamUpdates(ps, st),
        function |-> function]
  ELSE LET all_updates == AllUpdates(self_updates, ps, st, rule_updates)
       IN  IF UpdatesAccepted(all_updates)
           THEN [exc |-> "none", updates |-> all_updates,
                 function |-> Some([inputs |-> inputs,
                                    updates |-> all_updates])]
           ELSE [exc |-> "theano.function", updates |-> all_updates,
                 function |-> function]

\* A process_batch that only asks for the declared inputs to be present.
ProcessBatchCallMissingOnly(batch, inputs, function, heap) ==
  IF ~(Range(inputs) \subseteq DOMAIN batch)
  THEN [exc |-> "ValueError", heap |-> heap]
  ELSE IF function = None
  THEN [exc |-> "AttributeError", heap |-> heap]
  ELSE LET ordered_batch == [i \in 1..Len(inputs) |-> batch[inputs[i]]]
       IN  [exc |-> "none",
            heap |-> CallFunction(function[1], ordered_batch, heap)]

\* A process_batch that performs the pairs self._updates holds when it is
\* called, not those compiled by initialize().
ProcessBatchCallLive(batch, inputs, function, heap) ==
  IF DOMAIN batch # Range(inputs)
  THEN [exc |-> "ValueError", heap |-> heap]
  ELSE IF function = None
  THEN [exc |-> "AttributeError", heap |-> heap]
  ELSE LET ordered_batch == [i \in 1..Len(inputs) |-> batch[inputs[i]]]
       IN  [exc |-> "none",
            heap |-> CallFunction([inputs |-> inputs,
                                   updates |-> SelectSeq(_updates, IsPair)],
                                  ordered_batch, heap)]

\* process_batch(batch): the exception and the heap it leaves.
ProcessBatchCall(batch, inputs, function, heap) ==
  IF DOMAIN batch # Range(inputs)
  THEN [exc |-> "ValueError", heap |-> heap]
  ELSE IF function = None
  THEN [exc |-> "AttributeError", heap |-> heap]
  ELSE LET ordered_batch == [i \in 1..Len(inputs) |-> batch[inputs[i]]]
       IN  [exc |-> "none",
            heap |-> CallFunction(function[1], ordered_batch, heap)]

\* What GradientDescent.__init__ leaves when it raises.
InitFailed(exc) ==
  [exc |-> exc, params |-> <<>>, gradients |-> <<>>, step_rule |-> None,
   steps |-> <<>>, step_rule_updates |-> <<>>, heap |-> <<>>]

\* A test for `is not None` where the code tests the truth value.
NotNone(optional) == optional # None

\* The truth value of an optional mapping: None and the empty mapping are
\* false.
Truthy(optional) == optional # None /\ optional[1] # <<>>

\* GradientDescent.__init__(step_rule, gradients, known_grads, cost=,
\* params=).  order is the iteration order of the dict built from the
\* derived gradients, a permutation of the positions of params.  The two
\* monitoring norms are expressions nothing here reads; self.steps.values()
\* of the second one fails when compute_steps returned no tuple.
GradientDescentInit(step_rule_arg, gradients_arg, known_grads_arg, cost_arg, params_arg, order, heap) ==
  LET kw_params == IF params_arg = None /\ Truthy(gradients_arg)
                   THEN Some(Keys(gradients_arg[1]))
                   ELSE params_arg
  IN  IF kw_params = None THEN InitFailed("TypeError: params")
      ELSE
      LET self_params == kw_params[1]
          derived == TensorGrad(cost_arg, self_params,
                                IF known_grads_arg = None THEN <<>>
                                ELSE known_grads_arg[1])
          self_gradients ==
            IF Truthy(gradients_arg) THEN gradients_arg[1]
            ELSE [i \in 1..Len(self_params) |->
                    Item(self_params[order[i]], derived[order[i]])]
          new_rule == IF step_rule_arg # None
                      THEN Returned(step_rule_arg[1], heap)
                      ELSE ScaleInit(Whole(1), heap)
          r == ComputeSteps(new_rule.value, self_gradients, new_rule.heap)
      IN  IF Truthy(gradients_arg) /\ Truthy(known_grads_arg)
          THEN InitFailed("ValueError: known_grads has no effect")
          ELSE IF r.exc # "none" THEN InitFailed(r.exc)
          ELSE IF r.value.type # "tuple"
          THEN IF Len(r.value.items) # 2
               THEN InitFailed("ValueError: values to unpack")
               ELSE InitFailed("AttributeError: values")
          ELSE [exc |-> "none", params |-> self_params,
                gradients |-> self_gradients,
                step_rule |-> Some(new_rule.value),
                steps |-> r.value.steps,
                step_rule_updates |-> r.value.updates,
                heap |-> r.heap]

\* ---------------------------------------------------------- the callers
\* The rule a caller builds from a description of the constructor calls.
RECURSIVE NewRule(_, _)
RECURSIVE NewRules(_, _)
NewRules(specs, heap) ==
  IF specs = <<>> THEN Returned(<<>>, heap)
  ELSE LET one == NewRule(Head(specs), heap)
       IN  IF one.exc # "none" THEN one
           ELSE LET rest == NewRules(Tail(specs), one.heap)
                IN  IF rest.exc # "none" THEN rest
                    ELSE Returned(<<one.value>> \o rest.value, rest.heap)

NewRule(spec, heap) ==
  CASE spec.kind = "Scale" -> ScaleInit(spec.learning_rate, heap)
    [] spec.kind = "BasicMomentum" -> BasicMomentumInit(spec.momentum, heap)
    [] spec.kind = "Momentum" ->
         MomentumInit(spec.learning_rate, spec.momentum, heap)
    [] spec.kind = "AdaDelta" ->
         AdaDeltaInit(spec.decay_rate, spec.epsilon, heap)
    [] spec.kind = "BasicRMSProp" ->
         BasicRMSPropInit(spec.decay_rate, spec.max_scaling, heap)
    [] spec.kind = "RMSProp" ->
         RMSPropInit(spec.learning_rate, spec.decay_rate, spec.max_scaling,
                     heap)
    [] spec.kind = "StepClipping" -> StepClippingInit(spec.threshold, heap)
    [] spec.kind = "VariableClipping" ->
         VariableClippingInit(spec.threshold, spec.axis, heap)
    [] spec.kind = "AdaGrad" ->
         AdaGradInit(spec.learning_rate, spec.epsilon, heap)
    [] spec.kind = "Adam" ->
         AdamInit(spec.learning_rate, spec.beta1, spec.beta2, spec.epsilon,
                  spec.decay_factor, heap)
    [] spec.kind = "RemoveNotFinite" -> RemoveNotFiniteInit(spec.scaler, heap)
    [] spec.kind = "CompositeRule" ->
         LET cs == NewRules(spec.components, heap)
         IN  IF cs.exc # "none" THEN cs
             ELSE CompositeRuleInit(cs.value, cs.heap)
    [] spec.kind = "Restrict" ->
         LET inner == NewRule(spec.step_rule, heap)
         IN  IF inner.exc # "none" THEN inner
             ELSE RestrictInit(inner.value, spec.variables, spec.order,
                               inner.heap)
    [] spec.kind = "StepRule" -> Returned([kind |-> "StepRule"], heap)

\* Descriptions of rules with the defaults of the constructors.
ScaleOf(lr) == [kind |-> "Scale", learning_rate |-> lr]
BasicMomentumOf(m) == [kind |-> "BasicMomentum", momentum |-> m]
MomentumOf(lr, m) ==
  [kind |-> "Momentum", learning_rate |-> lr, momentum |-> m]
AdaDeltaOf(rho) ==
  [kind |-> "AdaDelta", decay_rate |-> rho, epsilon |-> Rat(1, 1000000)]
BasicRMSPropOf(rho) ==
  [kind |-> "BasicRMSProp", decay_rate |-> rho,
   max_scaling |-> Whole(100000)]
RMSPropOf(lr, rho) ==
  [kind |-> "RMSProp", learning_rate |-> lr, decay_rate |-> rho,
   max_scaling |-> Whole(100000)]
StepClippingOf(threshold) == [kind |-> "StepClipping", threshold |-> threshold]
VariableClippingOf(threshold, axis) ==
  [kind |-> "VariableClipping", threshold |-> threshold, axis |-> axis]
AdaGradDefault ==
  [kind |-> "AdaGrad", learning_rate |-> Rat(2, 1000),
   epsilon |-> Rat(1, 1000000)]
AdamDefault ==
  [kind |-> "Adam", learning_rate |-> Rat(2, 1000), beta1 |-> Rat(1, 10),
   beta2 |-> Rat(1, 1000), epsilon |-> Rat(1, 100000000),
   decay_factor |-> Rat(99999999, 100000000)]
RemoveNotFiniteDefault == [kind |-> "RemoveNotFinite", scaler |-> Rat(1, 10)]
CompositeRuleOf(components) ==
  [kind |-> "CompositeRule", components |-> components]
RestrictOf(inner, variables) ==
  [kind |-> "Restrict", step_rule |-> inner, variables |-> variables,
   order |-> variables]

\* --------------------------------------------------------------- inputs
Sq(c) == Binary("mul", SharedVar(c), SharedVar(c))

\* cost = sum(W ** 2 + V ** 2), as in test_gradient_descent.
SumSq == Unary("sum", Binary("add", Sq(W), Sq(V)))

\* cost = sum(x * (W ** 2 + V ** 2) + y * (W + V)), x and y fed per batch.
WithInputs ==
  Unary("sum",
        Binary("add",
               Binary("mul", Input("x"), Binary("add", Sq(W), Sq(V))),
               Binary("mul", Input("y"),
                      Binary("add", SharedVar(W), SharedVar(V)))))

Costs == {SumSq, WithInputs}

\* An OrderedDict of tensor.grad(c, key) for the given keys.
GradientsOf(c, keys) == [i \in 1..Len(keys) |-> Item(keys[i], Grad(c, keys[i]))]

GradientArgs(c) ==
  {None, Some(<<>>), Some(GradientsOf(c, <<W>>)),
   Some(GradientsOf(c, <<W, V>>))}

KnownGradsArgs(c) ==
  {None, Some(<<>>), Some(<<[var |-> c.a, grad |-> Const(Scalar(Whole(2)))]>>)}

ParamsArgs == {None, Some(<<W>>), Some(<<W, V>>), Some(<<V, W>>)}

Args(c, ps, g, k) ==
  [cost |-> c, params |-> ps, gradients |-> g, known_grads |-> k]

\* Every way of calling the constructor.
AllArgs ==
  {Args(c, ps, g, k) : c \in Costs, ps \in ParamsArgs,
                       g \in UNION {GradientArgs(d) : d \in Costs},
                       k \in UNION {KnownGradsArgs(d) : d \in Costs}}

\* The constructor calls whose life cycle is followed.
Scenarios ==
  {Args(SumSq, Some(<<V, W>>), None, None),
   Args(WithInputs, Some(<<W>>), None, None),
   Args(SumSq, None, Some(GradientsOf(SumSq, <<W, V>>)), None),
   Args(WithInputs, None, Some(GradientsOf(WithInputs, <<W>>)), None),
   Args(SumSq, Some(<<W, V>>), Some(GradientsOf(SumSq, <<W>>)), None),
   Args(SumSq, Some(<<W>>), None,
        Some(<<[var |-> SumSq.a, grad |-> Const(Scalar(Whole(2)))]>>)),
   Args(SumSq, None, Some(GradientsOf(SumSq, <<W>>)),
        Some(<<[var |-> SumSq.a, grad |-> Const(Scalar(Whole(2)))]>>))}

Perms(n) == {f \in [1..n -> 1..n] : \A i, j \in 1..n : f[i] = f[j] => i = j}

\* The step rules handed to GradientDescent; None leaves the default.
StepRuleArgs ==
  {None, Some(BasicMomentumOf(Half)), Some(StepClippingOf(None))}

WStart == {Ramp(1)}

\* The data of a batch, by source name.
Data(n) == IF n = "x" THEN Scalar(Half) ELSE Scalar(Whole(1))
Batches == {[n \in S |-> Data(n)] :
              S \in {{}, {"x"}, {"x", "y"}, {"x", "z"}, {"x", "y", "z"}}}

\* The update a collaborator registers: Stat accumulates W.
StatUpdate == Pair(Stat, Binary("add", SharedVar(Stat), SharedVar(W)))

AddUpdatesArgs ==
  {[type |-> "list", items |-> <<StatUpdate>>],
   [type |-> "OrderedDict", items |-> <<StatUpdate>>],
   [type |-> "list", items |-> <<SharedVar(Stat)>>],
   [type |-> "tuple", items |-> <<StatUpdate>>],
   [type |-> "tuple", items |-> <<SharedVar(Stat), SharedVar(W)>>],
   [type |-> "dict", items |-> <<StatUpdate>>]}

UpdatesValues == {<<>>, <<StatUpdate>>}

LearningRates == {Rat(3, 4)}

\* ------------------------------------------------------------ actions
\* The record of a call: its name, how it ended, its argument, and what
\* self._updates, self._function and the heap held when it was made.
Called(op, exc, arg) ==
  [op |-> op, exc |-> exc, arg |-> arg, updates |-> _updates,
   function |-> _function, shared |-> shared]

NoAlgorithm ==
  /\ constructed = FALSE
  /\ cost = None
  /\ params = <<>>
  /\ _updates = <<>>
  /\ gradients = <<>>
  /\ step_rule = None
  /\ steps = <<>>
  /\ step_rule_updates = <<>>
  /\ _function = None

\* The caller creates the shared variables and builds a step rule.
InitFrom(heaps, rule_args) ==
  \E heap \in heaps, arg \in rule_args :
    LET built == IF arg = None THEN Returned(None, heap)
                 ELSE NewRule(arg[1], heap)
    IN  /\ shared = IF built.exc = "none" THEN built.heap ELSE heap
        /\ rule = IF built.exc = "none" /\ arg # None
                  THEN Some(built.value) ELSE None
        /\ made = [arg |-> arg, heap |-> heap]
        /\ last = [op |-> "new", exc |-> built.exc, arg |-> arg,
                   updates |-> <<>>, function |-> None, shared |-> heap]
        /\ NoAlgorithm
        /\ hist = <<>>
        /\ ret = None
        /\ nbatch = 0 /\ nreg = 0 /\ ninit = 0 /\ ncalls = 0
        /\ rng = <<>> /\ numpy_random = 0

InitWith(rule_args) ==
  InitFrom({<<w, Ramp(3), ZerosLike(w)>> : w \in WStart}, rule_args)

Init == InitWith(StepRuleArgs)

\* algorithm = GradientDescent(step_rule=, gradients=, known_grads=, cost=,
\* params=), the arguments drawn from args.
ConstructWith(args) ==
  /\ ~constructed /\ last.op = "new" /\ last.exc = "none"
  /\ \E a \in args :
     \E order \in Perms(IF a.params = None THEN 0 ELSE Len(a.params[1])) :
       LET r == GradientDescentInit(rule, a.gradients, a.known_grads, a.cost,
                                   a.params, order, shared)
       IN  /\ last' = Called("__init__", r.exc, a)
           /\ IF r.exc = "none"
              THEN /\ constructed' = TRUE
                   /\ cost' = Some(a.cost)
                   /\ params' = r.params
                   /\ _updates' = <<>>
                   /\ gradients' = r.gradients
                   /\ step_rule' = r.step_rule
                   /\ steps' = r.steps
                   /\ step_rule_updates' = r.step_rule_updates
                   /\ _function' = None
                   /\ shared' = r.heap
              ELSE UNCHANGED <<algorithm, shared>>
           /\ UNCHANGED <<rule, made, hist, ret, nbatch, nreg, ninit, ncalls>>
  /\ UNCHANGED random

\* algorithm.step_rule.learning_rate.set_value(v)
SetValue ==
  /\ constructed /\ nreg < MaxRegistrations
  /\ step_rule[1].kind \in {"Scale", "Momentum"}
  /\ \E v \in LearningRates :
       /\ shared' = [shared EXCEPT ![step_rule[1].learning_rate] = Scalar(v)]
       /\ last' = Called("set_value", "none", v)
  /\ nreg' = nreg + 1
  /\ UNCHANGED <<algorithm, rule, made, hist, ret, nbatch, ninit, ncalls>>
  /\ UNCHANGED random

\* algorithm.add_updates(u)
AddUpdates ==
  /\ constructed /\ nreg < MaxRegistrations
  /\ \E u \in AddUpdatesArgs :
       LET r == AddUpdatesCall(_updates, u)
       IN  /\ _updates' = r.updates
           /\ last' = Called("add_updates", r.exc, u)
  /\ nreg' = nreg + 1
  /\ UNCHANGED <<constructed, cost, params, gradients, step_rule, steps,
                 step_rule_updates, _function, shared, rule, made, hist, ret,
                 nbatch, ninit, ncalls>>
  /\ UNCHANGED random

\* algorithm.updates = value
SetUpdates ==
  /\ constructed /\ nreg < MaxRegistrations
  /\ \E value \in UpdatesValues :
       /\ _updates' = value
       /\ last' = Called("updates", "none", value)
  /\ nreg' = nreg + 1
  /\ UNCHANGED <<constructed, cost, params, gradients, step_rule, steps,
                 step_rule_updates, _function, shared, rule, made, hist, ret,
                 nbatch, ninit, ncalls>>
  /\ UNCHANGED random

\* algorithm.initialize()
Initialize ==
  /\ constructed /\ ninit < MaxInits
  /\ LET r == InitializeCall(_updates, params, steps, step_rule_updates,
                             Inputs(cost[1]), _function)
     IN  /\ _updates' = r.updates
         /\ _function' = r.function
         /\ last' = Called("initialize", r.exc, None)
  /\ ninit' = ninit + 1
  /\ UNCHANGED <<constructed, cost, params, gradients, step_rule, steps,
                 step_rule_updates, shared, rule, made, hist, ret, nbatch, nreg,
                 ncalls>>
  /\ UNCHANGED random

\* algorithm.process_batch(batch)
ProcessBatchOf(batches) ==
  /\ constructed /\ nbatch < MaxBatches
  /\ \E batch \in batches :
       LET r == ProcessBatchCall(batch, Inputs(cost[1]), _function, shared)
       IN  /\ shared' = r.heap
           /\ last' = Called("process_batch", r.exc, batch)
           /\ hist' = IF r.exc = "none"
                      THEN Append(hist, [shared |-> shared, batch |-> batch])
                      ELSE hist
  /\ nbatch' = nbatch + 1
  /\ UNCHANGED <<algorithm, rule, made, ret, nreg, ninit, ncalls>>
  /\ UNCHANGED random

ProcessBatch == ProcessBatchOf(Batches)

Construct == ConstructWith(Scenarios)

Next ==
  \/ Construct
  \/ SetValue
  \/ AddUpdates
  \/ SetUpdates
  \/ Initialize
  \/ ProcessBatch

Spec == Init /\ [][Next]_vars

\* ------------------------------------------- every way of constructing
ConstructAny == ConstructWith(AllArgs)

SpecConstruct == Init /\ [][ConstructAny]_vars

\* ------------------------------------------------- the rules on their own
\* The rules a caller builds to call compute_steps on them directly, as the
\* tests of the step rules do.
RuleArgs ==
  {Some(ScaleOf(Half)), Some(BasicMomentumOf(Half)),
   Some(MomentumOf(Rat(1, 10), Half)), Some(AdaDeltaOf(Half)),
   Some(AdaDeltaOf(Whole(2))), Some(BasicRMSPropOf(Half)),
   Some(RMSPropOf(Rat(1, 10), Half)), Some(StepClippingOf(None)),
   Some(StepClippingOf(Some(Whole(0)))), Some(StepClippingOf(Some(Whole(4)))),
   Some(VariableClippingOf(Whole(5), None)),
   Some(VariableClippingOf(Whole(5), Some(<<0>>))),
   Some(VariableClippingOf(Whole(5), Some(<<0, 0>>))),
   Some(AdaGradDefault), Some(AdamDefault), Some(RemoveNotFiniteDefault),
   Some(CompositeRuleOf(<<>>)),
   Some(CompositeRuleOf(<<StepClippingOf(Some(Whole(4))),
                          ScaleOf(Rat(1, 10))>>)),
   Some(CompositeRuleOf(<<BasicMomentumOf(Half), AdaGradDefault>>)),
   Some(CompositeRuleOf(<<StepClippingOf(None), ScaleOf(Rat(1, 10))>>)),
   Some(RestrictOf(ScaleOf(Rat(1, 10)), <<W>>)),
   Some(RestrictOf(BasicMomentumOf(Half), <<V, W>>)),
   Some(RestrictOf(StepClippingOf(None), <<W>>)),
   Some([kind |-> "StepRule"])}

\* The mappings of previous steps handed to compute_steps.
PreviousSteps ==
  {GradientsOf(SumSq, keys) : keys \in {<<>>, <<W>>, <<W, V>>, <<V, W>>}}

InitRules == InitWith(RuleArgs)

\* rule.compute_steps(previous_steps)
CallComputeSteps ==
  /\ rule # None /\ ~constructed /\ ncalls < MaxRuleCalls
  /\ \E previous_steps \in PreviousSteps :
       LET r == ComputeSteps(rule[1], previous_steps, shared)
       IN  /\ ret' = r.value
           /\ shared' = r.heap
           /\ last' = Called("compute_steps", r.exc, previous_steps)
  /\ ncalls' = ncalls + 1
  /\ UNCHANGED <<algorithm, rule, made, hist, nbatch, nreg, ninit>>
  /\ UNCHANGED random

SpecRules == InitRules /\ [][CallComputeSteps]_vars

\* ------------------------------------------- the hyperparameters checked
DecayRates == {Whole(-1), Rat(-1, 100), Whole(0), Half, Whole(1),
               Rat(101, 100), Whole(2)}
MaxScalings == {Whole(-1), Whole(0), Rat(1, 100), Whole(100000)}

\* AdaDelta(rho), BasicRMSProp(rho, s) and RMSProp(0.1, rho, s).
HyperArgs ==
  {Some(AdaDeltaOf(rho)) : rho \in DecayRates}
  \cup {Some([kind |-> "BasicRMSProp", decay_rate |-> rho,
              max_scaling |-> s]) : rho \in DecayRates, s \in MaxScalings}
  \cup {Some([kind |-> "RMSProp", learning_rate |-> Rat(1, 10),
              decay_rate |-> rho, max_scaling |-> s]) :
           rho \in DecayRates, s \in MaxScalings}

InitHyper == InitWith(HyperArgs)

SpecHyper == InitHyper /\ [][CallComputeSteps]_vars

\* ------------------------------------ the rules evaluated as the tests do
\* The cells of the previous steps of W and of V: the caller's gradients.
GW == 4
GV == 5
StepCell(p) == IF p = W THEN GW ELSE GV

\* Tensors whose norms are fractions: a vector (3k, 4k, 0, ...) and a
\* matrix with a and b first on its diagonal and zeros elsewhere.
Pyth(k) ==
  [i \in 1..Dim |-> Whole(IF i = 1 THEN 3 * k ELSE IF i = 2 THEN 4 * k ELSE 0)]
Diag(a, b) ==
  [i \in 1..(Dim * Dim) |->
     Whole(IF i = 1 THEN a ELSE IF i = Dim + 2 THEN b ELSE 0)]

\* The heaps of the caller: W, V, Stat and the previous steps of W and V,
\* all of them scalars, or vectors, or matrices.
Scalars ==
  <<Scalar(Whole(1)), Scalar(Whole(1)), Scalar(Whole(0)), Scalar(Whole(3)),
    Scalar(Whole(4))>>
Vectors == <<Pyth(3), Pyth(2), Pyth(0), Pyth(2), Pyth(0)>>
Matrices == <<Diag(6, 8), Diag(4, 3), Diag(0, 0), Diag(3, 4), Diag(0, 0)>>
Heaps == {Scalars, Vectors, Matrices}

\* The rules that are evaluated.
Thresholds == {Rat(7, 2), Whole(5), Whole(7)}
AxisArgs ==
  {None, Some(<<0>>), Some(<<1>>), Some(<<0, 1>>), Some(<<1, 0>>),
   Some(<<2>>), Some(<<0, 0>>), Some(<<1, 0, 1>>)}
EvalRules ==
  {Some(ScaleOf(Half)), Some(BasicMomentumOf(Half)),
   Some(MomentumOf(Rat(1, 10), Half)),
   Some(CompositeRuleOf(<<ScaleOf(Rat(1, 10)), BasicMomentumOf(Half)>>)),
   Some(BasicRMSPropOf(Whole(0))), Some(BasicRMSPropOf(Whole(1))),
   Some(RMSPropOf(Rat(1, 10), Whole(0))),
   Some(RMSPropOf(Rat(1, 10), Whole(1))),
   Some(StepClippingOf(None)), Some(StepClippingOf(Some(Whole(0)))),
   Some(StepClippingOf(Some(Whole(4)))), Some(StepClippingOf(Some(Whole(5)))),
   Some(StepClippingOf(Some(Whole(10)))),
   Some(CompositeRuleOf(<<StepClippingOf(Some(Whole(4))),
                          ScaleOf(Rat(1, 10))>>))}
  \cup {Some(VariableClippingOf(t, axis)) : t \in Thresholds,
                                            axis \in AxisArgs}

\* The values the caller writes to the previous step of W: multiples of
\* the first one.
Multiples == {0, -1}

InitEval == InitFrom(Heaps, EvalRules)

\* steps, updates = rule.compute_steps(OrderedDict([(W, gW), (V, gV)]))
TakeSteps ==
  /\ rule # None /\ ~constructed /\ last.op = "new"
  /\ \E keys \in {<<W>>, <<W, V>>, <<V, W>>} :
       LET previous_steps ==
             [i \in 1..Len(keys) |->
                Item(keys[i], SharedVar(StepCell(keys[i])))]
           r == ComputeSteps(rule[1], previous_steps, shared)
       IN  /\ ret' = r.value
           /\ shared' = r.heap
           /\ last' = Called("compute_steps", r.exc, previous_steps)
  /\ ncalls' = ncalls + 1
  /\ UNCHANGED <<algorithm, rule, made, hist, nbatch, nreg, ninit>>
  /\ UNCHANGED random

\* f = theano.function([], steps.values(), updates=updates); f()
CallF ==
  /\ last.op # "new" /\ ret # None /\ nbatch < MaxEvals
  /\ ret.type = "tuple" /\ UpdatesAccepted(ret.updates)
  /\ LET fn == [inputs |-> <<>>, updates |-> ret.updates]
         out == [i \in 1..Len(ret.steps) |->
                   Item(ret.steps[i].key,
                        Eval(ret.steps[i].value, shared, <<>>))]
         after == CallFunction(fn, <<>>, shared)
     IN  /\ shared' = after
         /\ hist' = Append(hist, [shared |-> shared, batch |-> <<>>,
                                  out |-> out, after |-> after])
         /\ last' = Called("f", "none", None)
  /\ nbatch' = nbatch + 1
  /\ UNCHANGED <<algorithm, rule, made, ret, nreg, ninit, ncalls>>
  /\ UNCHANGED random

\* gW.set_value(k * g): the caller changes the previous step of W.
SetStep ==
  /\ last.op # "new" /\ nreg < MaxRegistrations
  /\ \E k \in Multiples :
       LET v == TMul(Scalar(Whole(k)), made.heap[GW])
       IN  /\ shared' = [shared EXCEPT ![GW] = v]
           /\ last' = Called("set_value", "none", v)
  /\ nreg' = nreg + 1
  /\ UNCHANGED <<algorithm, rule, made, hist, ret, nbatch, ninit, ncalls>>
  /\ UNCHANGED random

\* rule.learning_rate.set_value(v)
SetRate ==
  /\ last.op # "new" /\ nreg < MaxRegistrations
  /\ rule # None /\ rule[1].kind \in {"Scale", "Momentum", "RMSProp"}
  /\ \E v \in LearningRates :
       /\ shared' = [shared EXCEPT ![rule[1].learning_rate] = Scalar(v)]
       /\ last' = Called("set_value", "none", v)
  /\ nreg' = nreg + 1
  /\ UNCHANGED <<algorithm, rule, made, hist, ret, nbatch, ninit, ncalls>>
  /\ UNCHANGED random

NextEval ==
  \/ TakeSteps
  \/ CallF
  \/ SetStep
  \/ SetRate

SpecEval == InitEval /\ [][NextEval]_vars

\* ---------------------------------------------------------- properties
\* The last call was a process_batch that returned.
BatchProcessed == last.op = "process_batch" /\ last.exc = "none"

\* The last call was an initialize() that returned.
Compiled == last.op = "initialize" /\ last.exc = "none"

\* The gradient mapping holds the gradients of the cost, derived by the
\* constructor or passed to it, and not gradients bent by known_grads.
GradientsOfCost == gradients = GradientsOf(cost[1], Keys(gradients))

\* The data fed for x and y; a cost without inputs is sum(1 * (W^2 + V^2)
\* + 0 * (W + V)).
FedX(batch) == IF "x" \in DOMAIN batch THEN batch["x"][1] ELSE Whole(1)
FedY(batch) == IF "y" \in DOMAIN batch THEN batch["y"][1] ELSE Whole(0)

\* Element k of the gradient of the cost with respect to p at heap h:
\* 2 * x * p[k] + y.
GradientAt(h, batch, p, k) ==
  RAdd(RMul(RMul(Whole(2), FedX(batch)), h[p][k]), FedY(batch))

\* after is before with every pair of fn performed once, each value
\* computed from before, and nothing else changed.
AppliedOnce(fn, before, batch, after) ==
  /\ Len(after) = Len(before)
  /\ \A c \in 1..Len(before) :
       IF \E i \in 1..Len(fn.updates) : fn.updates[i].target = c
       THEN LET i == CHOOSE j \in 1..Len(fn.updates) :
                        fn.updates[j].target = c
            IN  after[c] = Eval(fn.updates[i].value, before, batch)
       ELSE after[c] = before[c]

\* The cell of the learning rate of the default rule.
LearningRateCell == step_rule[1].learning_rate

\* C1: with the default rule Scale, a process_batch that returns leaves
\* every parameter at W - learning_rate * gradient(W), rate and gradient
\* taken before the call; for cost = sum(W^2 + V^2) and a rate that stayed
\* the same over the n batches processed, W is (1 - 2 * rate)^n times its
\* starting value.  This holds for derived and for passed gradients alike.
C1_ScaleDescends ==
  (BatchProcessed /\ rule = None /\ GradientsOfCost) =>
    LET lr == last.shared[LearningRateCell][1]
        n == Len(hist)
    IN  \A i \in 1..Len(params) : \A k \in 1..Dim :
          /\ shared[params[i]][k] =
               RSub(last.shared[params[i]][k],
                    RMul(lr, GradientAt(last.shared, last.arg, params[i], k)))
          /\ (cost[1] = SumSq
              /\ \A j \in 1..n : hist[j].shared[LearningRateCell] = <<lr>>)
             => shared[params[i]][k] =
                  RMul(RPow(RSub(Whole(1), RMul(Whole(2), lr)), n),
                       hist[1].shared[params[i]][k])

\* The run of test_gradient_descent_with_gradients: the gradients are
\* passed (params is then the key list W, V of the mapping), the rate is
\* set to 0.75, and one batch leaves W at -0.5 times its start.
C1_Witness ==
  /\ BatchProcessed /\ rule = None /\ GradientsOfCost
  /\ cost[1] = SumSq /\ params = <<W, V>> /\ Len(hist) = 1
  /\ last.shared[LearningRateCell] = <<Rat(3, 4)>>
  /\ last.shared[W] = Ramp(1)
  /\ shared[W] = [k \in 1..Dim |-> RMul(Rat(-1, 2), Ramp(1)[k])]

\* C2: process_batch raises its ValueError exactly when the key set of the
\* batch differs from the set of the input names, and then no shared
\* variable is changed.
C2_BatchKeysChecked ==
  last.op = "process_batch" =>
    /\ (last.exc = "ValueError") <=>
         (DOMAIN last.arg # Range(Inputs(cost[1])))
    /\ last.exc = "ValueError" => shared = last.shared

\* An initialized algorithm is given a batch with a key too many.
C2_Witness ==
  /\ last.op = "process_batch" /\ last.exc = "ValueError"
  /\ last.function # None
  /\ Range(Inputs(cost[1])) \subseteq DOMAIN last.arg
  /\ "z" \in DOMAIN last.arg
  /\ shared = last.shared

\* The pairs (param, param - steps[param]) in the order of params.
ParamPairs ==
  [i \in 1..Len(params) |->
     Pair(params[i], Binary("sub", SharedVar(params[i]),
                            Lookup(steps, params[i])))]

\* C3 as stated: the list initialize() compiles is the pairs of the
\* parameters, then the updates of the step rule, then the registered
\* updates.
C3_RegisteredUpdatesLast ==
  Compiled =>
    _function[1].updates = ParamPairs \o step_rule_updates \o last.updates

\* C3, amended: the list initialize() compiles is the registered updates
\* (what self.updates held when initialize() was called), then the pairs
\* of the parameters in the order of params, then the updates of the step
\* rule.
C3_RegisteredUpdatesFirst ==
  Compiled =>
    _function[1].updates = last.updates \o ParamPairs \o step_rule_updates

\* An initialize() that compiled registered updates, two parameters and
\* the updates of a rule.
C3_Witness ==
  /\ Compiled /\ last.updates # <<>> /\ step_rule_updates # <<>>
  /\ Len(params) = 2
  /\ _function[1].updates[1] = StatUpdate

\* C4: a process_batch that returns computes every value it assigns from
\* the heap as it was before the call.  With BasicMomentum(m) the velocity
\* becomes m * v_old + g(param_old) and the parameter param_old - v_new,
\* and a registered update that reads W reads it as it was.
C4_UpdatesReadPreCallValues ==
  BatchProcessed =>
    /\ AppliedOnce(last.function[1], last.shared, last.arg, shared)
    /\ (step_rule[1].kind = "BasicMomentum" /\ GradientsOfCost) =>
         \A i \in 1..Len(gradients) : \A k \in 1..Dim :
           LET p == gradients[i].key
               v == step_rule_updates[i].target
               m == last.shared[step_rule[1].momentum][1]
           IN  /\ shared[v][k] =
                    RAdd(RMul(m, last.shared[v][k]),
                         GradientAt(last.shared, last.arg, p, k))
               /\ shared[p][k] = RSub(last.shared[p][k], shared[v][k])
    /\ (\E i \in 1..Len(last.function[1].updates) :
          last.function[1].updates[i] = StatUpdate) =>
         shared[Stat] = TAdd(last.shared[Stat], last.shared[W])

\* The second batch under BasicMomentum with the update of Stat compiled:
\* the velocity is not zero any more, W changes, and Stat took W as it was.
C4_Witness ==
  /\ BatchProcessed /\ step_rule[1].kind = "BasicMomentum"
  /\ GradientsOfCost /\ Len(hist) = 2
  /\ \E i \in 1..Len(last.function[1].updates) :
       last.function[1].updates[i] = StatUpdate
  /\ last.shared[step_rule_updates[1].target] # ZerosLike(shared[W])
  /\ shared[W] # last.shared[W]
  /\ shared[Stat] = TAdd(last.shared[Stat], last.shared[W])

\* C5: the algorithm is uninitialized (no compiled function) after
\* construction, initialized once an initialize() returned, and no call
\* takes the compiled function away; process_batch fails and changes
\* nothing while uninitialized, and with a matching batch performs the
\* compiled list once when initialized.
C5_LifeCycle ==
  /\ (last.op = "__init__" /\ last.exc = "none") => _function = None
  /\ Compiled => _function # None
  /\ last.function # None => _function # None
  /\ (last.op = "process_batch" /\ last.function = None) =>
       last.exc # "none" /\ shared = last.shared
  /\ (last.op = "process_batch" /\ last.function # None
      /\ DOMAIN last.arg = Range(last.function[1].inputs)) =>
       /\ last.exc = "none"
       /\ AppliedOnce(last.function[1], last.shared, last.arg, shared)

\* An initialize() fails on an initialized algorithm, which stays so and
\* processes the next batch.
C5_Witness ==
  /\ BatchProcessed
  /\ ninit = 2 /\ shared # last.shared
  /\ _updates # _function[1].updates

\* What add_updates and the assignment of updates do once a function is
\* compiled: they do not fail for what they accept before, and leave the
\* function and the heap alone.
RegistrationIsLate ==
  (last.op \in {"add_updates", "updates"} /\ last.function # None) =>
    /\ _function = last.function
    /\ shared = last.shared
    /\ (last.op = "updates" \/ last.arg.type \in {"list", "OrderedDict"})
         => last.exc = "none"

C7_OnlyPairsAppended ==
  last.op = "add_updates" =>
    IF last.arg.type \in {"list", "OrderedDict"}
       /\ \A i \in 1..Len(last.arg.items) : IsPair(last.arg.items[i])
    THEN last.exc = "none" /\ _updates = last.updates \o last.arg.items
    ELSE last.exc = "ValueError" /\ _updates = last.updates

\* C7, amended: add_updates appends the elements of a list, whatever they
\* are, and the items of an ordered mapping, in their order; it fails,
\* leaving the list as it is, for an argument that is neither.
C7_ListsAppended ==
  last.op = "add_updates" =>
    IF last.arg.type \in {"list", "OrderedDict"}
    THEN last.exc = "none" /\ _updates = last.updates \o last.arg.items
    ELSE last.exc = "ValueError" /\ _updates = last.updates

\* A list whose element is a shared variable, not a pair, is appended.
C7_Witness ==
  /\ last.op = "add_updates" /\ last.exc = "none"
  /\ last.arg.type = "list" /\ ~IsPair(last.arg.items[1])
  /\ _updates = last.updates \o last.arg.items

\* C8: the constructor raises its ValueError about known_grads exactly
\* when it is given a gradient mapping and known_grads, both holding
\* something; with one of them, or none, it does not raise it.
C8_GradientsExcludeKnownGrads ==
  last.op = "__init__" =>
    ((last.exc = "ValueError: known_grads has no effect") <=>
       (/\ last.arg.gradients # None /\ last.arg.gradients[1] # <<>>
        /\ last.arg.known_grads # None /\ last.arg.known_grads[1] # <<>>))

\* A construction with gradients and known_grads fails and builds nothing.
C8_Witness ==
  /\ last.op = "__init__"
  /\ last.exc = "ValueError: known_grads has no effect"
  /\ last.arg.gradients # None /\ last.arg.known_grads # None
  /\ ~constructed

\* C9: a compute_steps that returns, returns the pair (steps, updates),
\* steps holding the keys of the previous steps in their order.
C9_ComputeStepsReturnsPair ==
  (last.op = "compute_steps" /\ last.exc = "none") =>
    /\ ret.type = "tuple"
    /\ Keys(ret.steps) = Keys(last.arg)

\* C10: a CompositeRule whose components each take the previous steps
\* without raising returns the pair (steps, updates) with the keys of the
\* previous steps.
C10_CompositeRuleChains ==
  (/\ last.op = "compute_steps" /\ rule[1].kind = "CompositeRule"
   /\ \A i \in 1..Len(rule[1].components) :
        ComputeSteps(rule[1].components[i], last.arg, last.shared).exc
          = "none") =>
    /\ last.exc = "none"
    /\ ret.type = "tuple"
    /\ Keys(ret.steps) = Keys(last.arg)

\* C11: the steps of a Scale are learning_rate * previous_step, the rate
\* being the rule's cell and not a value, and the rule has no update pairs;
\* so every process_batch that returns moves every parameter by the value
\* the cell holds when the batch is processed times the gradient then,
\* whatever was written to the cell since the construction.
C11_ScaleReadsItsCell ==
  (constructed /\ step_rule[1].kind = "Scale") =>
    /\ step_rule_updates = <<>>
    /\ Keys(steps) = Keys(gradients)
    /\ \A i \in 1..Len(steps) :
         steps[i].value = Binary("mul", SharedVar(LearningRateCell),
                                 gradients[i].value)
    /\ BatchProcessed =>
         \A i \in 1..Len(gradients) :
           shared[gradients[i].key] =
             TSub(last.shared[gradients[i].key],
                  TMul(last.shared[LearningRateCell],
                       Eval(gradients[i].value, last.shared, last.arg)))

\* Two batches with the default Scale(1), the rate set to 0.75 between
\* them: W goes from w to w - 2w = -w, then to -w + 0.75 * 2w = w / 2.
C11_Witness ==
  /\ BatchProcessed /\ step_rule[1].kind = "Scale" /\ cost[1] = SumSq
  /\ HasKey(gradients, W) /\ GradientsOfCost
  /\ Len(hist) = 2
  /\ hist[1].shared[LearningRateCell] = <<Whole(1)>>
  /\ hist[2].shared[LearningRateCell] = <<Rat(3, 4)>>
  /\ hist[2].shared[W] = [k \in 1..Dim |-> RMul(Whole(-1), hist[1].shared[W][k])]
  /\ shared[W] = [k \in 1..Dim |-> RMul(Half, hist[1].shared[W][k])]

\* The steps of the rule were computed and returned as (steps, updates).
StepsTaken == last.op # "new" /\ ret # None /\ ret.type = "tuple"

\* 1 + m + ... + m^(n-1)
RECURSIVE GeomSum(_, _)
GeomSum(m, n) == IF n = 0 THEN Whole(0) ELSE RAdd(RPow(m, n - 1), GeomSum(m, n - 1))

\* The previous step of W was g at each of the first n evaluations.
ConstantStep(g, n) == \A j \in 1..n : hist[j].shared[GW] = g

\* C12: BasicMomentum(m) keeps one velocity cell per parameter, zero when
\* the steps are computed; the n-th evaluation emits m * v_(n-1) +
\* previous_step_n and leaves the velocity at the step it emitted, and a
\* previous step that stays g gives g * (1 + m + ... + m^(n-1)).
C12_MomentumRecurrence ==
  (StepsTaken /\ rule[1].kind = "BasicMomentum") =>
    LET m == made.arg[1].momentum
        velocity(i) == ret.updates[i].target
        v(i, n) == IF n = 0 THEN ZerosLike(made.heap[ret.steps[i].key])
                   ELSE hist[n].after[velocity(i)]
    IN  /\ Len(ret.updates) = Len(ret.steps)
        /\ \A i \in 1..Len(ret.steps) :
             /\ velocity(i) > Len(made.heap)
             /\ \A k \in 1..Len(ret.steps) : velocity(k) = velocity(i) => k = i
             /\ hist = <<>> => shared[velocity(i)] = v(i, 0)
             /\ \A n \in 1..Len(hist) :
                  LET g == hist[n].shared[StepCell(ret.steps[i].key)]
                  IN  /\ hist[n].shared[velocity(i)] = v(i, n - 1)
                      /\ hist[n].out[i].key = ret.steps[i].key
                      /\ hist[n].out[i].value =
                           TAdd(TMul(Scalar(m), v(i, n - 1)), g)
                      /\ v(i, n) = hist[n].out[i].value
                      /\ (ret.steps[i].key = W /\ ConstantStep(g, n)) =>
                           hist[n].out[i].value =
                             TMul(Scalar(GeomSum(m, n)), g)

\* test_basic_momentum: m = 0.5 and g = (6, 8) give (6, 8), (9, 12) and
\* (10.5, 14).
C12_Witness ==
  /\ StepsTaken /\ made.arg = Some(BasicMomentumOf(Half))
  /\ Keys(ret.steps) = <<W>> /\ Len(hist) = 3 /\ ConstantStep(Pyth(2), 3)
  /\ \A k \in 1..2 :
       /\ hist[1].out[1].value[k] = Whole(2 * (k + 2))
       /\ hist[2].out[1].value[k] = Whole(3 * (k + 2))
       /\ hist[3].out[1].value[k] = Rat(7 * (k + 2), 2)

\* The mapping handed to compute_steps, from the keys of the steps returned.
PreviousStepsOf(keys) ==
  [i \in 1..Len(keys) |-> Item(keys[i], SharedVar(StepCell(keys[i])))]

\* C13: Momentum(lr, m) is CompositeRule([Scale(lr), BasicMomentum(m)])
\* built on the same heap, but for its class and its two attributes, which
\* are the cells of its components; it returns what the composite returns,
\* and the n-th evaluation emits m * v_(n-1) + lr * previous_step_n, with
\* lr and m read from the cells, and leaves the velocity at that step.
C13_MomentumIsScaleThenBasicMomentum ==
  (rule # None /\ rule[1].kind = "Momentum") =>
    LET lr == made.arg[1].learning_rate
        m == made.arg[1].momentum
        twin == NewRule(CompositeRuleOf(<<ScaleOf(lr), BasicMomentumOf(m)>>),
                        made.heap)
        velocity(i) == ret.updates[i].target
    IN  /\ rule[1].components = twin.value.components
        /\ rule[1].components[1].learning_rate = rule[1].learning_rate
        /\ rule[1].components[2].momentum = rule[1].momentum
        /\ last.op = "new" => shared = twin.heap
        /\ StepsTaken =>
             /\ ret = ComputeSteps(twin.value,
                                   PreviousStepsOf(Keys(ret.steps)),
                                   twin.heap).value
             /\ \A i \in 1..Len(ret.steps) : \A n \in 1..Len(hist) :
                  LET before == hist[n].shared
                      g == before[StepCell(ret.steps[i].key)]
                  IN  /\ hist[n].out[i].value =
                           TAdd(TMul(before[rule[1].momentum],
                                     before[velocity(i)]),
                                TMul(before[rule[1].learning_rate], g))
                      /\ hist[n].after[velocity(i)] = hist[n].out[i].value
                      /\ before[velocity(i)] =
                           IF n = 1 THEN ZerosLike(g)
                           ELSE hist[n - 1].out[i].value

\* test_momentum: Momentum(0.1, 0.5) and g = (6, 8) give (0.6, 0.8),
\* (0.9, 1.2) and (1.05, 1.4).
C13_Witness ==
  /\ StepsTaken /\ made.arg = Some(MomentumOf(Rat(1, 10), Half))
  /\ Keys(ret.steps) = <<W>> /\ Len(hist) = 3 /\ ConstantStep(Pyth(2), 3)
  /\ \A n \in 1..3 : hist[n].shared[rule[1].learning_rate] = <<Rat(1, 10)>>
  /\ \A k \in 1..2 :
       /\ hist[1].out[1].value[k] = Rat(2 * (k + 2), 10)
       /\ hist[2].out[1].value[k] = Rat(3 * (k + 2), 10)
       /\ hist[3].out[1].value[k] = Rat(7 * (k + 2), 20)

\* What BasicRMSProp(decay_rate, max_scaling), built on the heap the rule
\* of the state was built on, computes for the parameter key when its
\* mean-square cell holds what cell holds on heap: the pair of its step
\* and of the new value of its cell.
BasicTwin(key, cell, heap) ==
  CHOOSE pair \in
    {<<Eval(one.step, own, <<>>), Eval(one.updates[1].value, own, <<>>)>> :
       one \in {BasicRMSPropComputeStep(
                  NewRule([kind |-> "BasicRMSProp",
                           decay_rate |-> made.arg[1].decay_rate,
                           max_scaling |-> made.arg[1].max_scaling],
                          made.heap).value,
                  key, SharedVar(StepCell(key)),
                  SubSeq(heap, 1, Len(heap) - 1)).value},
       own \in {[heap EXCEPT ![Len(heap)] = heap[cell]]}} : TRUE

\* C14: RMSProp has BasicRMSProp as its first and Scale as its second
\* component, and one mean-square cell per parameter, zero at first and
\* changed by the evaluations only; an evaluation emits the learning rate,
\* as its cell holds it then, times what BasicRMSProp emits from the same
\* mean square and previous step, and leaves in the cell what BasicRMSProp
\* leaves, whatever the learning rate is or was.  (Every evaluation is the
\* last one in the state that follows it.)
C14_RMSPropScalesLast ==
  (rule # None /\ rule[1].kind = "RMSProp") =>
    /\ rule[1].components[1].kind = "BasicRMSProp"
    /\ rule[1].components[2] =
         [kind |-> "Scale", learning_rate |-> rule[1].learning_rate]
    /\ StepsTaken =>
         /\ Len(ret.updates) = Len(ret.steps)
         /\ \A i \in 1..Len(ret.steps) :
              LET cell == ret.updates[i].target
                  n == Len(hist)
              IN  /\ cell > Len(made.heap)
                  /\ \A j \in 1..n :
                       hist[j].shared[cell] =
                         IF j = 1 THEN ZerosLike(made.heap[ret.steps[i].key])
                         ELSE hist[j - 1].after[cell]
                  /\ shared[cell] =
                       IF n = 0 THEN ZerosLike(made.heap[ret.steps[i].key])
                       ELSE hist[n].after[cell]
                  /\ n > 0 =>
                       \A basic \in {BasicTwin(ret.steps[i].key, cell,
                                                hist[n].shared)} :
                         /\ hist[n].out[i].value =
                              TMul(hist[n].shared[rule[1].learning_rate],
                                   basic[1])
                         /\ hist[n].after[cell] = basic[2]

\* RMSProp(0.1, decay_rate 0) on g = (6, 8), the rate set to 0.75 after
\* the first evaluation: the steps are 0.1 * (1, 1) and 0.75 * (1, 1), the
\* mean square is (36, 64) after both.
C14_Witness ==
  /\ StepsTaken /\ made.arg = Some(RMSPropOf(Rat(1, 10), Whole(0)))
  /\ Keys(ret.steps) = <<W>> /\ Len(hist) = 2 /\ ConstantStep(Pyth(2), 2)
  /\ hist[1].shared[rule[1].learning_rate] = <<Rat(1, 10)>>
  /\ hist[2].shared[rule[1].learning_rate] = <<Rat(3, 4)>>
  /\ \A k \in 1..2 :
       /\ hist[1].out[1].value[k] = Rat(1, 10)
       /\ hist[2].out[1].value[k] = Rat(3, 4)
       /\ hist[1].after[ret.updates[1].target][k] = Whole(4 * (k + 2) * (k + 2))
       /\ hist[2].after[ret.updates[1].target][k] = Whole(4 * (k + 2) * (k + 2))

\* C15: AdaDelta, BasicRMSProp and RMSProp are built exactly when
\* decay_rate is in [0, 1] and, for the latter two, max_scaling is above 0;
\* otherwise the constructor raises a ValueError and the caller has no
\* rule.
C15_HyperparametersChecked ==
  (made.arg # None
   /\ made.arg[1].kind \in {"AdaDelta", "BasicRMSProp", "RMSProp"}) =>
    LET a == made.arg[1]
        decay_ok == RLeq(Whole(0), a.decay_rate) /\ RLeq(a.decay_rate, Whole(1))
        scaling_ok == a.kind = "AdaDelta" \/ RLess(Whole(0), a.max_scaling)
    IN  /\ (rule # None) <=> (decay_ok /\ scaling_ok)
        /\ rule # None =>
             /\ rule[1].kind = a.kind
             /\ last.op = "new" =>
                  /\ last.exc = "none"
                  /\ shared[rule[1].decay_rate] = Scalar(a.decay_rate)
        /\ rule = None =>
             /\ last.op = "new" /\ shared = made.heap
             /\ last.exc =
                  IF ~decay_ok
                  THEN "ValueError: decay rate needs to be in [0, 1]"
                  ELSE "ValueError: max. scaling needs to be greater than 0"

\* RMSProp(0.1, 1, max_scaling 0) is rejected, its decay rate being valid.
C15_Witness ==
  /\ made.arg # None /\ made.arg[1].kind = "RMSProp"
  /\ made.arg[1].decay_rate = Whole(1) /\ made.arg[1].max_scaling = Whole(0)
  /\ rule = None /\ shared = made.heap
  /\ last.exc = "ValueError: max. scaling needs to be greater than 0"

\* The previous steps before the n-th evaluation and the steps it emitted,
\* in the order of the keys.
PreviousAt(n) ==
  [i \in 1..Len(ret.steps) |-> hist[n].shared[StepCell(ret.steps[i].key)]]
EmittedAt(n) == [i \in 1..Len(ret.steps) |-> hist[n].out[i].value]

WithoutThreshold(a) ==
  \/ a = StepClippingOf(None)
  \/ a.kind = "CompositeRule"
     /\ \E i \in 1..Len(a.components) : a.components[i] = StepClippingOf(None)
  \/ a.kind = "Restrict" /\ a.step_rule = StepClippingOf(None)

\* The rule with every StepClipping() left out; a Restrict of nothing but
\* a StepClipping() is a Restrict of the empty CompositeRule.
LeftOut(a) ==
  IF a.kind = "CompositeRule"
  THEN CompositeRuleOf(SelectSeq(a.components,
                                 LAMBDA c : c # StepClippingOf(None)))
  ELSE IF a.kind = "Restrict"
  THEN [a EXCEPT !.step_rule = CompositeRuleOf(<<>>)]
  ELSE CompositeRuleOf(<<>>)

\* C17: compute_steps of a StepClipping built without a threshold returns
\* the pair of the previous steps, unchanged, and no update pairs; a
\* CompositeRule or a Restrict that holds such a StepClipping returns what
\* it returns with the StepClipping left out.
C17_NoThresholdIsNoOp ==
  (last.op = "compute_steps" /\ last.arg # <<>>
   /\ WithoutThreshold(made.arg[1])) =>
    LET twin == NewRule(LeftOut(made.arg[1]), made.heap)
    IN  /\ last.exc = "none"
        /\ ret.type = "tuple"
        /\ made.arg[1].kind = "StepClipping" =>
             ret = StepsAndUpdates(last.arg, <<>>)
        /\ ret = ComputeSteps(twin.value, last.arg, last.shared).value

\* The values, on the heap as it is, of the steps compute_steps returned,
\* be they returned in a pair or as a bare mapping.
ReturnedSteps ==
  LET m == IF ret.type = "tuple" THEN ret.steps ELSE ret.items
  IN  [i \in 1..Len(m) |-> Eval(m[i].value, shared, <<>>)]

\* C18: for a StepClipping built with a threshold t that is not None, the
\* norm of all the steps compute_steps returned is at most t.
C18_NormWithinThreshold ==
  (/\ last.op # "new" /\ ret # None /\ made.arg[1].kind = "StepClipping"
   /\ made.arg[1].threshold # None) =>
    RLeq(L2Norm(ReturnedSteps)[1], made.arg[1].threshold[1])

\* The axes a VariableClipping was built with.
AxesOf(a) == IF a.axis = None THEN {} ELSE Range(a.axis[1])

\* The elements of the slice of element k of x along the axes: the whole
\* tensor without axes, of a scalar or vector, and along both axes of a
\* matrix; the column of k along axis 0 and its row along axis 1.
Slice(x, axes, k) ==
  IF axes = {} \/ Rank(x) < 2 \/ axes = {0, 1} THEN 1..Len(x)
  ELSE Along(x, CHOOSE a \in axes : TRUE, k)

SliceNorm(x, axes, k) ==
  RSqrt(TSum([j \in 1..Len(x) |->
                IF j \in Slice(x, axes, k) THEN RMul(x[j], x[j])
                ELSE Whole(0)]))

\* C19: VariableClipping returns no update pairs, and for every parameter
\* and evaluation, with x = param - previous_step: in a slice whose norm of
\* x is at most the threshold the step is the previous step, in any other
\* param - step is x times threshold / norm; so every slice of param - step
\* has a norm of at most the threshold.  (Every evaluation is the last one
\* in the state that follows it.)
C19_ValueAfterUpdateClipped ==
  (StepsTaken /\ made.arg[1].kind = "VariableClipping") =>
    /\ ret.updates = <<>>
    /\ \A i \in 1..Len(ret.steps) : hist # <<>> =>
         LET n == Len(hist)
             threshold == made.arg[1].threshold
             axes == AxesOf(made.arg[1])
             param == hist[n].shared[ret.steps[i].key]
             previous_step == hist[n].shared[StepCell(ret.steps[i].key)]
             step == hist[n].out[i].value
         IN  /\ Len(step) = Len(param)
             /\ hist[n].after = hist[n].shared
             /\ \A x \in {TSub(param, previous_step)} :
                \A after \in {TSub(param, step)} :
                \A k \in 1..Len(param) :
                \A norm \in {SliceNorm(x, axes, k)} :
                  /\ RLeq(SliceNorm(after, axes, k), threshold)
                  /\ IF RLeq(norm, threshold)
                     THEN step[k] = previous_step[k]
                     ELSE after[k] = RMul(RDiv(threshold, norm), x[k])

\* VariableClipping(3.5, axis=1) on a matrix with rows (6, 0) and (0, 8)
\* and the previous step with rows (3, 0) and (0, 4): the first row of
\* param - previous_step has norm 3 and keeps its step, the second has
\* norm 4 and gets the step (0, 4.5), which leaves (0, 3.5).
C19_Witness ==
  /\ StepsTaken
  /\ made.arg = Some(VariableClippingOf(Rat(7, 2), Some(<<1>>)))
  /\ made.heap = Matrices /\ Keys(ret.steps) = <<W>> /\ Len(hist) = 1
  /\ PreviousAt(1) = <<Diag(3, 4)>>
  /\ EmittedAt(1)[1] =
       [j \in 1..(Dim * Dim) |->
          IF j = 1 THEN Whole(3) ELSE IF j = Dim + 2 THEN Rat(9, 2)
          ELSE Whole(0)]

\* C20: VariableClipping is built exactly when no axis is given twice, the
\* constructor raising a ValueError otherwise; compute_steps raises a
\* ValueError exactly when an axis of the rule is not below the rank of a
\* previous step, and returns otherwise.
C20_AxesChecked ==
  (made.arg # None /\ made.arg[1].kind = "VariableClipping") =>
    LET given == IF made.arg[1].axis = None THEN <<>> ELSE made.arg[1].axis[1]
        distinct == \A i, j \in 1..Len(given) : given[i] = given[j] => i = j
    IN  /\ (rule # None) <=> distinct
        /\ rule = None => last.exc = "ValueError: axis must be unique"
        /\ (rule # None /\ last.op = "new") => last.exc = "none"
        /\ last.op = "compute_steps" =>
             LET invalid ==
                   \E i \in 1..Len(last.arg) : \E ax \in Range(given) :
                     ax >= Rank(shared[StepCell(last.arg[i].key)])
             IN  /\ invalid => last.exc = "ValueError: Invalid axis"
                 /\ ~invalid =>
                      /\ last.exc = "none" /\ ret.type = "tuple"
                      /\ Keys(ret.steps) = Keys(last.arg)

\* VariableClipping(5, axis=1) asked for the step of a vector.
C20_Witness ==
  /\ made.arg = Some(VariableClippingOf(Whole(5), Some(<<1>>)))
  /\ made.heap = Vectors /\ last.op = "compute_steps"
  /\ last.exc = "ValueError: Invalid axis" /\ ret = None

\* ------------------------------------------ previous steps not finite
Inf == <<1, 0>>
MinusInf == <<-1, 0>>

\* The tensor x with element k replaced by bad.
Spoiled(x, k, bad) == [i \in 1..Len(x) |-> IF i = k THEN bad ELSE x[i]]

\* The previous steps the caller provides: finite ones, and ones in which
\* some elements, or all, are nan or infinite.
StepValues ==
  {Pyth(1), Spoiled(Pyth(1), 1, NaN), Spoiled(Pyth(1), Dim, Inf),
   Spoiled(Spoiled(Pyth(1), 1, MinusInf), Dim, NaN),
   [i \in 1..Dim |-> Inf]}

FiniteHeaps ==
  {<<Pyth(3), Pyth(2), Pyth(0), gw, gv>> : gw \in StepValues,
                                            gv \in StepValues}
  \cup {<<Scalar(Whole(1)), Scalar(Whole(2)), Scalar(Whole(0)), Scalar(gw),
          Scalar(gv)>> : gw \in {NaN, Inf, Whole(3)},
                         gv \in {Inf, Whole(3)}}

\* RemoveNotFinite() and RemoveNotFinite(1.), as in test_remove_not_finite.
FiniteRules ==
  {Some(RemoveNotFiniteDefault),
   Some([kind |-> "RemoveNotFinite", scaler |-> Whole(1)])}

InitFinite == InitFrom(FiniteHeaps, FiniteRules)

\* gW.set_value(v): the caller changes the previous step of W.
SpoilStep ==
  /\ last.op # "new" /\ nreg < MaxRegistrations
  /\ \E v \in StepValues :
       /\ Len(v) = Len(shared[GW])
       /\ shared' = [shared EXCEPT ![GW] = v]
       /\ last' = Called("set_value", "none", v)
  /\ nreg' = nreg + 1
  /\ UNCHANGED <<algorithm, rule, made, hist, ret, nbatch, ninit, ncalls>>
  /\ UNCHANGED random

NextFinite ==
  \/ TakeSteps
  \/ CallF
  \/ SpoilStep

SpecFinite == InitFinite /\ [][NextFinite]_vars

\* Every element of the tensor x is finite.
AllFinite(x) == \A i \in 1..Len(x) : Finite(x[i])

\* C21: RemoveNotFinite(scaler) decides parameter by parameter: when the
\* previous step of a parameter holds a nan or an infinite element, its
\* whole step is scaler * param, and otherwise its step is its previous
\* step; the previous steps of the other parameters play no part, the step
\* is finite when the parameter is, and there are no update pairs.
C21_RemoveNotFinitePerParameter ==
  (rule # None /\ rule[1].kind = "RemoveNotFinite" /\ StepsTaken)
    => /\ ret.updates = <<>>
       /\ (last.op = "compute_steps") => Keys(ret.steps) = Keys(last.arg)
       /\ (last.op = "f") =>
            \A h \in {hist[Len(hist)]} :
              \A i \in 1..Len(ret.steps) :
                \A previous \in {h.shared[StepCell(ret.steps[i].key)]},
                   param \in {h.shared[ret.steps[i].key]} :
                  /\ h.out[i].key = ret.steps[i].key
                  /\ h.out[i].value =
                       IF AllFinite(previous) THEN previous
                       ELSE TMul(Scalar(rule[1].scaler), param)
                  /\ AllFinite(param) => AllFinite(h.out[i].value)
                  /\ h.after = h.shared

\* RemoveNotFinite(1.) was given W with a previous step that holds a nan
\* and finite elements, and V with a finite previous step: the step of W is
\* W, whole, and the step of V is its previous step.
C21_Witness ==
  /\ rule # None /\ rule[1].kind = "RemoveNotFinite"
  /\ rule[1].scaler = Whole(1)
  /\ StepsTaken /\ last.op = "f"
  /\ Keys(ret.steps) = <<W, V>>
  /\ LET h == hist[Len(hist)]
     IN  /\ Len(h.shared[GW]) = Dim
         /\ \E k \in 1..Dim : IsNan(h.shared[GW][k])
         /\ \E k \in 1..Dim : Finite(h.shared[GW][k])
         /\ AllFinite(h.shared[GV])
         /\ h.out[1].value = h.shared[W]
         /\ h.out[2].value = h.shared[GV]

\* The steps and update pairs that the rule inside a Restrict returns when
\* it is given only the entries of previous_steps for the targets.
RestrictedInvocation(self, previous_steps, heap) ==
  ComputeSteps(self.step_rule, DictSubset(previous_steps, self.order).value,
               heap)

\* C22: Restrict(rule, targets).compute_steps(p) with the targets among the
\* keys of p returns the keys of p in the order of p; a key outside the
\* targets keeps its previous step, a target gets the step that rule
\* returns for the targets alone, and the update pairs are those of that
\* invocation of rule.
C22_RestrictFrame ==
  (/\ rule # None /\ rule[1].kind = "Restrict"
   /\ last.op = "compute_steps"
   /\ rule[1].variables \subseteq {last.arg[i].key : i \in 1..Len(last.arg)})
    => /\ last.exc = "none"
       /\ ret.type = "tuple"
       /\ Keys(ret.steps) = Keys(last.arg)
       /\ \A inner \in {RestrictedInvocation(rule[1], last.arg, last.shared)} :
            /\ inner.exc = "none"
            /\ inner.value.type = "tuple"
            /\ ret.updates = inner.value.updates
            /\ \A i \in 1..Len(last.arg) :
                 ret.steps[i].value =
                   IF last.arg[i].key \in rule[1].variables
                   THEN Lookup(inner.value.steps, last.arg[i].key)
                   ELSE last.arg[i].value

\* ------------------------------------- the rules that adapt to the past
\* The arguments of the roots that the expression e takes.
RECURSIVE RootArgs(_)
RootArgs(e) ==
  (IF e.op = "sqrt" THEN {e.a} ELSE {})
  \cup (IF "a" \in DOMAIN e THEN RootArgs(e.a) ELSE {})
  \cup (IF "b" \in DOMAIN e THEN RootArgs(e.b) ELSE {})
  \cup (IF "c" \in DOMAIN e THEN RootArgs(e.c) ELSE {})

HasRoot(x) ==
  \/ x[2] = 0
  \/ x[1] < 0
  \/ /\ \E r \in 0..x[1] : r * r = x[1]
     /\ \E r \in 0..x[2] : r * r = x[2]

\* Every root that the expressions of steps take on the heap st is exact.
RootsExact(outputs, st) ==
  \A i \in 1..Len(outputs) :
    \A a \in RootArgs(outputs[i].value) :
      \A x \in {Eval(a, st, <<>>)} : \A k \in 1..Len(x) : HasRoot(x[k])

\* The previous steps the caller writes before an evaluation: (a, b) puts a
\* and b in the first elements of the previous step of W, and b and a in
\* those of V.  The values can follow each other with sums of squares that
\* are squares: 9 + 16 = 25, 25 + 144 = 169.
FeedPairs == {<<0, 0>>, <<3, 4>>, <<-3, 4>>, <<4, 3>>, <<12, 12>>}

Fed(x, a, b) ==
  [i \in 1..Len(x) |-> Whole(IF i = 1 THEN a ELSE IF i = 2 THEN b ELSE 0)]

Feed(st, pair) ==
  [st EXCEPT ![GW] = Fed(st[GW], pair[1], pair[2]),
             ![GV] = Fed(st[GV], pair[2], pair[1])]

\* AdaGrad with a learning rate and an epsilon that keep the fractions small.
AdaGradOf(lr) ==
  [kind |-> "AdaGrad", learning_rate |-> lr, epsilon |-> Rat(1, 100)]

\* Adam with beta2 = 1 takes exact roots only; with another beta2 its
\* steps have no exact roots and only its updates are evaluated.
AdamOf(beta2, decay_factor) ==
  [kind |-> "Adam", learning_rate |-> Half, beta1 |-> Half,
   beta2 |-> beta2, epsilon |-> Rat(1, 10), decay_factor |-> decay_factor]

AdaptiveRules ==
  {Some(AdaGradOf(Rat(1, 500))), Some(AdaGradOf(Half)),
   Some(AdamOf(Whole(1), Half)), Some(AdamOf(Whole(1), Whole(1))),
   Some(AdamOf(Rat(1, 4), Half))}

InitAdaptive == InitFrom({Scalars, Vectors}, AdaptiveRules)

\* gW.set_value(..); gV.set_value(..); f(), with
\* f = theano.function([], steps.values(), updates=updates)
FeedAndCall ==
  /\ last.op # "new" /\ ret # None /\ nbatch < MaxEvals
  /\ ret.type = "tuple" /\ UpdatesAccepted(ret.updates)
  /\ \E pair \in FeedPairs :
       LET st == Feed(shared, pair)
           fn == [inputs |-> <<>>, updates |-> ret.updates]
       IN  /\ RootsExact(ret.steps, st)
           /\ shared' = CallFunction(fn, <<>>, st)
           /\ hist' = Append(hist,
                             [shared |-> st, batch |-> <<>>,
                              out |-> [i \in 1..Len(ret.steps) |->
                                         Item(ret.steps[i].key,
                                              Eval(ret.steps[i].value, st,
                                                   <<>>))],
                              after |-> CallFunction(fn, <<>>, st)])
           /\ last' = Called("f", "none", pair)
  /\ nbatch' = nbatch + 1
  /\ UNCHANGED <<algorithm, rule, made, ret, nreg, ninit, ncalls>>
  /\ UNCHANGED random

\* gW.set_value(..); gV.set_value(..); f(), with
\* f = theano.function([], [], updates=updates)
FeedAndUpdate ==
  /\ last.op # "new" /\ ret # None /\ nbatch < MaxEvals
  /\ ret.type = "tuple" /\ UpdatesAccepted(ret.updates)
  /\ rule[1].kind = "Adam" /\ rule[1].beta2 # Whole(1)
  /\ \E pair \in FeedPairs :
       LET st == Feed(shared, pair)
           fn == [inputs |-> <<>>, updates |-> ret.updates]
       IN  /\ shared' = CallFunction(fn, <<>>, st)
           /\ hist' = Append(hist,
                             [shared |-> st, batch |-> <<>>, out |-> <<>>,
                              after |-> CallFunction(fn, <<>>, st)])
           /\ last' = Called("f", "none", pair)
  /\ nbatch' = nbatch + 1
  /\ UNCHANGED <<algorithm, rule, made, ret, nreg, ninit, ncalls>>
  /\ UNCHANGED random

NextAdaptive ==
  \/ TakeSteps
  \/ FeedAndCall
  \/ FeedAndUpdate

SpecAdaptive == InitAdaptive /\ [][NextAdaptive]_vars

\* The sum of the squares of the previous steps of parameter p in the
\* first n evaluations.
RECURSIVE SquaresSeen(_, _)
SquaresSeen(p, n) ==
  IF n = 0 THEN ZerosLike(made.heap[p])
  ELSE TAdd(TSqr(hist[n].shared[StepCell(p)]), SquaresSeen(p, n - 1))

RAbs(x) == <<Abs(x[1]), x[2]>>

\* C23 (every evaluation is checked in the state that follows it):
\* AdaGrad keeps one cell ssq for each parameter; it starts at zero,
\* holds after n evaluations the sum of the squares of the n previous
\* steps, and never decreases; the step is
\* learning_rate * previous_step / (sqrt(ssq') + epsilon) with ssq' the sum
\* that includes the current previous step, so no element of a step
\* exceeds learning_rate in magnitude.
C23_AdaGradSumOfSquares ==
  (rule # None /\ rule[1].kind = "AdaGrad" /\ StepsTaken)
    => /\ Len(ret.updates) = Len(ret.steps)
       /\ \A i \in 1..Len(ret.steps) :
            \A p \in {ret.steps[i].key}, ssq \in {ret.updates[i].target} :
              /\ (last.op = "compute_steps") => shared[ssq] = ZerosLike(shared[p])
              /\ shared[ssq] = SquaresSeen(p, Len(hist))
              /\ \A n \in {Len(hist)} \ {0} :
                   \A g \in {hist[n].shared[StepCell(p)]},
                      new \in {hist[n].after[ssq]} :
                     /\ new = SquaresSeen(p, n)
                     /\ \A k \in 1..Len(new) :
                          RLeq(hist[n].shared[ssq][k], new[k])
                     /\ hist[n].out[i].value =
                          TDiv(TMul(Scalar(rule[1].learning_rate), g),
                               TAdd(TSqrt(new), Scalar(rule[1].epsilon)))
                     /\ \A k \in 1..Len(new) :
                          RLeq(RAbs(hist[n].out[i].value[k]),
                               rule[1].learning_rate)

\* AdaGrad has evaluated W and V three times with previous steps that are
\* not zero: the cell of W holds the sum of three squares.
C23_Witness ==
  /\ rule # None /\ rule[1].kind = "AdaGrad" /\ StepsTaken
  /\ Len(ret.steps) = 2
  /\ Len(hist) = 3
  /\ \A n \in 1..3 : hist[n].shared[GW][1] # Whole(0)
  /\ shared[ret.updates[1].target][1] = Whole(169)
  /\ RLess(Whole(0), RAbs(hist[3].out[1].value[1]))

\* The cells that Adam made for the i-th parameter of the last call.
AdamCells(i) ==
  [mean |-> ret.updates[3 * i - 2].target,
   variance |-> ret.updates[3 * i - 1].target,
   time |-> ret.updates[3 * i].target]

\* beta_1t and the learning rate of Adam at time t1.
Beta1At(self, t1) ==
  RSub(Whole(1), RMul(RSub(Whole(1), self.beta1),
                      RPow(self.decay_factor, t1 - 1)))
LearningRateAt(self, t1) ==
  RDiv(RMul(self.learning_rate,
            RSqrt(RSub(Whole(1), RPow(RSub(Whole(1), self.beta2), t1)))),
       RSub(Whole(1), RPow(RSub(Whole(1), self.beta1), t1)))

\* C24 (every evaluation is checked in the state that follows it):
\* Adam makes a mean, a variance and a time cell for each parameter,
\* all zero at first; an evaluation sets time to time + 1, mean to
\* beta1t * previous_step + (1 - beta1t) * mean and variance to
\* beta2 * previous_step^2 + (1 - beta2) * variance, all from the values
\* before it; so after n evaluations every time cell holds n, and the step
\* of the n-th evaluation is computed with t' = n.
C24_AdamCells ==
  (rule # None /\ rule[1].kind = "Adam" /\ StepsTaken)
    => /\ Len(ret.updates) = 3 * Len(ret.steps)
       /\ UpdatesAccepted(ret.updates)
       /\ \A i \in 1..Len(ret.steps) :
            \A p \in {ret.steps[i].key}, c \in {AdamCells(i)} :
              /\ c.mean > Len(made.heap) /\ c.variance > Len(made.heap)
              /\ c.time > Len(made.heap)
              /\ (last.op = "compute_steps") =>
                   /\ shared[c.mean] = ZerosLike(shared[p])
                   /\ shared[c.variance] = ZerosLike(shared[p])
                   /\ shared[c.time] = Scalar(Whole(0))
              /\ shared[c.time] = Scalar(Whole(Len(hist)))
              /\ \A n \in {Len(hist)} \ {0} :
                   \A h \in {hist[n]}, b \in {Beta1At(rule[1], n)} :
                     \A g \in {h.shared[StepCell(p)]} :
                       /\ h.shared[c.time] = Scalar(Whole(n - 1))
                       /\ h.after[c.time] = Scalar(Whole(n))
                       /\ h.after[c.mean] =
                            TAdd(TMul(Scalar(b), g),
                                 TMul(Scalar(RSub(Whole(1), b)),
                                      h.shared[c.mean]))
                       /\ h.after[c.variance] =
                            TAdd(TMul(Scalar(rule[1].beta2), TSqr(g)),
                                 TMul(Scalar(RSub(Whole(1), rule[1].beta2)),
                                      h.shared[c.variance]))
                       /\ (h.out # <<>>) =>
                            h.out[i].value =
                              TDiv(TMul(Scalar(LearningRateAt(rule[1], n)),
                                        h.after[c.mean]),
                                   TAdd(TSqrt(h.after[c.variance]),
                                        Scalar(rule[1].epsilon)))

\* Adam has evaluated W and V twice, with steps that are not zero, and the
\* steps came out: both time cells hold 2 and the mean of W is not its
\* last previous step.
C24_Witness ==
  /\ rule # None /\ rule[1].kind = "Adam" /\ StepsTaken
  /\ Len(ret.steps) = 2
  /\ Len(hist) = 2
  /\ hist[2].out # <<>>
  /\ shared[AdamCells(1).time] = Scalar(Whole(2))
  /\ shared[AdamCells(2).time] = Scalar(Whole(2))
  /\ hist[1].shared[GW][1] # Whole(0)
  /\ hist[2].shared[GW][1] # Whole(0)
  /\ shared[AdamCells(1).mean] # hist[2].shared[GW]
  /\ hist[2].out[1].value[1] # Whole(0)

\* ------------------------------------------- the cells of the rules
\* The rules that keep state, and two BasicMomentum instances in a chain.
CellRules ==
  {Some(BasicMomentumOf(Half)), Some(AdaDeltaOf(Half)),
   Some(BasicRMSPropOf(Half)), Some(AdaGradDefault), Some(AdamDefault),
   Some(CompositeRuleOf(<<BasicMomentumOf(Half), BasicMomentumOf(Half)>>))}

\* W and V hold equal values in Scalars and different ones in Vectors.
InitCells == InitFrom({Scalars, Vectors}, CellRules)

\* rule.compute_steps(previous_steps), once more on the same rule instance;
\* the calls made are kept with what they returned.
ComputeStepsAgain ==
  /\ rule # None /\ ~constructed /\ ncalls < MaxRuleCalls
  /\ \E previous_steps \in PreviousSteps :
       LET r == ComputeSteps(rule[1], previous_steps, shared)
       IN  /\ ret' = r.value
           /\ shared' = r.heap
           /\ last' = Called("compute_steps", r.exc, previous_steps)
           /\ hist' = Append(hist, [arg |-> previous_steps, exc |-> r.exc,
                                    ret |-> r.value, shared |-> shared,
                                    after |-> r.heap])
  /\ ncalls' = ncalls + 1
  /\ UNCHANGED <<algorithm, rule, made, nbatch, nreg, ninit>>
  /\ UNCHANGED random

SpecCells == InitCells /\ [][ComputeStepsAgain]_vars

\* The shared variables that the expression e reads.
RECURSIVE SharedIn(_)
SharedIn(e) ==
  (IF e.op = "shared" THEN {e.id} ELSE {})
  \cup (IF "a" \in DOMAIN e THEN SharedIn(e.a) ELSE {})
  \cup (IF "b" \in DOMAIN e THEN SharedIn(e.b) ELSE {})
  \cup (IF "c" \in DOMAIN e THEN SharedIn(e.c) ELSE {})
  \cup (IF "list" \in DOMAIN e
        THEN UNION {SharedIn(e.list[i]) : i \in 1..Len(e.list)} ELSE {})

\* The n-th call of compute_steps returned steps and update pairs.
Answered(n) == hist[n].exc = "none" /\ hist[n].ret.type = "tuple"

\* The cells that the n-th call created, the cells that its update pairs
\* write, and the state cells that its step for the i-th parameter reads:
\* the cells read that did not exist when the rule had been constructed.
CreatedBy(n) == (Len(hist[n].shared) + 1)..Len(hist[n].after)
WrittenBy(n) ==
  {hist[n].ret.updates[j].target : j \in 1..Len(hist[n].ret.updates)}
StateRead(n, i) ==
  SharedIn(hist[n].ret.steps[i].value) \ (1..Len(hist[1].shared))

\* C25 as claimed: a second compute_steps on the same rule instance returns,
\* for a parameter used before, a step and update pairs that read and
\* write the state cells of the first invocation.
C25_CellsKeptAcrossInvocations ==
  \A m, n \in 1..Len(hist) :
    (m < n /\ Answered(m) /\ Answered(n))
      => /\ \A i \in 1..Len(hist[n].arg), j \in 1..Len(hist[m].arg) :
              hist[n].arg[i].key = hist[m].arg[j].key
                => StateRead(n, i) = StateRead(m, j)
         /\ Range(Keys(hist[n].arg)) = Range(Keys(hist[m].arg))
              => WrittenBy(n) = WrittenBy(m)

\* C25 as the code has it: every invocation of compute_steps creates new
\* state cells, all zero, for each parameter it is given; the update pairs
\* it returns write exactly the cells it created, the steps it returns
\* read state cells among those only, and no cell of an earlier invocation
\* is written again.
C25_CellsMadeByEachInvocation ==
  \A n \in 1..Len(hist) :
    Answered(n)
      => /\ WrittenBy(n) = CreatedBy(n)
         /\ CreatedBy(n) # {}
         /\ \A c \in CreatedBy(n) :
              hist[n].after[c] = ZerosLike(hist[n].after[c])
         /\ \A i \in 1..Len(hist[n].arg) :
              /\ StateRead(n, i) # {}
              /\ StateRead(n, i) \subseteq CreatedBy(n)
         /\ \A m \in 1..(n - 1) :
              Answered(m) => WrittenBy(m) \cap WrittenBy(n) = {}

\* The same rule instance was given W twice: the second invocation writes
\* cells that the first one did not.
C25_Witness ==
  /\ Len(hist) = 2
  /\ Answered(1) /\ Answered(2)
  /\ Keys(hist[1].arg) = <<W>> /\ Keys(hist[2].arg) = <<W>>
  /\ WrittenBy(1) # {} /\ WrittenBy(2) # {}
  /\ WrittenBy(1) \cap WrittenBy(2) = {}
  /\ StateRead(2, 1) # StateRead(1, 1)

\* The cells that hold the hyperparameters of the rule: those made when
\* the rule was constructed.
Hyperparameters == (Len(made.heap) + 1)..Len(hist[1].shared)

\* C26: the state cells of a rule for one parameter are distinct from its
\* cells for every other parameter, also when the parameters hold equal
\* values, and from the cells of every other rule instance and
\* invocation; the update of a state cell of a parameter reads, besides
\* the hyperparameters of the rule, only state cells of that parameter and
\* what the previous step of that parameter reads.
C26_CellsNeverShared ==
  \A n \in 1..Len(hist) :
    Answered(n)
      => /\ UpdatesAccepted(hist[n].ret.updates)
         /\ \A i, j \in 1..Len(hist[n].arg) :
              i # j => StateRead(n, i) \cap StateRead(n, j) = {}
         /\ \A m \in 1..(n - 1) :
              Answered(m) => WrittenBy(m) \cap WrittenBy(n) = {}
         /\ \A u \in 1..Len(hist[n].ret.updates) :
              \A pair \in {hist[n].ret.updates[u]} :
                /\ pair.target \notin 1..Len(hist[1].shared)
                /\ \E i \in 1..Len(hist[n].arg) :
                     /\ pair.target \in StateRead(n, i)
                     /\ SharedIn(pair.value)
                          \subseteq StateRead(n, i) \cup Hyperparameters
                                    \cup SharedIn(hist[n].arg[i].value)

\* Adam was given W and V, which hold equal values: each has three state
\* cells of its own, written by three update pairs.
C26_Witness ==
  /\ rule # None /\ rule[1].kind = "Adam"
  /\ Len(hist) >= 1 /\ Answered(Len(hist))
  /\ LET n == Len(hist)
     IN  /\ Keys(hist[n].arg) = <<W, V>>
         /\ hist[n].shared[W] = hist[n].shared[V]
         /\ Cardinality(StateRead(n, 1)) = 3
         /\ Cardinality(StateRead(n, 2)) = 3
         /\ StateRead(n, 1) \cap StateRead(n, 2) = {}
         /\ Cardinality(WrittenBy(n)) = 6

\* C27: initialize() leaves the updates attribute of the minimizer and the
\* update pairs of the step rule as they were, so that an initialize()
\* called again compiles the list that the first call compiled, in which
\* no parameter and no state cell is assigned twice.
C27_InitializeLeavesUpdates ==
  (last.op = "initialize" /\ last.exc = "none")
    => /\ _updates = last.updates
       /\ UpdatesAccepted(_function[1].updates)
       /\ \A again \in {InitializeCall(_updates, params, steps,
                                       step_rule_updates, Inputs(cost[1]),
                                       _function)} :
            again.exc = "none" /\ again.function = _function

\* C28: once GradientDescent is constructed, from a cost and params, from
\* a gradient mapping, or from params and a gradient mapping, the keys of
\* its steps are its params: initialize() finds a step for every param,
\* and every key of the gradient mapping is a param that gets an update.
C28_StepsCoverParams ==
  constructed
    => /\ Range(Keys(steps)) = Range(params)
       /\ Range(Keys(gradients)) \subseteq Range(params)
       /\ last.op = "initialize" => last.exc # "KeyError"

\* --------------------- gradient descent guarded by RemoveNotFinite
\* CompositeRule([RemoveNotFinite(s), BasicMomentum(0.5)])
GuardedRules ==
  {Some(CompositeRuleOf(<<[kind |-> "RemoveNotFinite", scaler |-> s],
                          BasicMomentumOf(Half)>>)) :
     s \in {Rat(1, 10), Whole(1)}}

InitGuarded == InitWith(GuardedRules)

\* The cost reads the inputs x and y, so that the data of a batch decide
\* whether the gradients 2 * x * W + y are finite.
GuardedScenarios ==
  {Args(WithInputs, Some(<<W>>), None, None),
   Args(WithInputs, Some(<<V, W>>), None, None),
   Args(WithInputs, None, Some(GradientsOf(WithInputs, <<W, V>>)), None)}

\* Batches whose data are finite, infinite or nan.
WildBatches ==
  {[n \in {"x", "y"} |-> Scalar(IF n = "x" THEN x ELSE y)] :
     x \in {Half, Inf, MinusInf, NaN}, y \in {Whole(1), Inf}}

ConstructGuarded == ConstructWith(GuardedScenarios)
ProcessWildBatch == ProcessBatchOf(WildBatches)

NextGuarded ==
  \/ ConstructGuarded
  \/ Initialize
  \/ ProcessWildBatch

SpecGuarded == InitGuarded /\ [][NextGuarded]_vars

\* The gradient of parameter p in the batch processed last.
LastGradient(p) == Eval(Lookup(gradients, p), last.shared, last.arg)

\* C29: with the step rule CompositeRule([RemoveNotFinite(s),
\* BasicMomentum(m)]), finite parameters and velocities that start at zero,
\* every parameter and every velocity cell holds finite values after any
\* batches, whether their gradients were finite, infinite or nan; a batch
\* whose gradient of a parameter is not finite moves the velocity by
\* s * param.
C29_StateStaysFinite ==
  constructed
    => /\ \A c \in 1..Len(shared) : AllFinite(shared[c])
       /\ BatchProcessed =>
            \A i \in 1..Len(steps) :
              \A p \in {steps[i].key}, v \in {step_rule_updates[i].target} :
                \A g \in {LastGradient(p)} :
                  /\ shared[v] =
                       TAdd(TMul(last.shared[rule[1].components[2].momentum],
                                 last.shared[v]),
                            IF AllFinite(g) THEN g
                            ELSE TMul(Scalar(rule[1].components[1].scaler),
                                      last.shared[p]))
                  /\ p \in Range(params)
                       => shared[p] = TSub(last.shared[p], shared[v])

\* Two batches were processed; the gradient of W was infinite in the first
\* and nan in the second, and W and its velocity, both changed, are finite.
C29_Witness ==
  /\ constructed /\ BatchProcessed /\ Len(hist) = 2
  /\ \E k \in 1..Dim : IsNan(LastGradient(W)[k])
  /\ \E k \in 1..Dim :
       IsInf(Eval(Lookup(gradients, W), hist[1].shared, hist[1].batch)[k])
  /\ AllFinite(shared[W]) /\ shared[W] # last.shared[W]
  /\ \E i \in 1..Len(steps) :
       /\ steps[i].key = W
       /\ AllFinite(shared[step_rule_updates[i].target])
       /\ shared[step_rule_updates[i].target]
            # ZerosLike(shared[W])

\* ------------------------------------------------ blocks.initialization
\* A random generator is a state and a step from state to state; a draw
\* gives the state as its raw variate and moves the state on.
Modulus == 8
Advance(state) == (5 * state + 3) % Modulus

RECURSIVE Advanced(_, _)
Advanced(state, n) == IF n = 0 THEN state ELSE Advanced(Advance(state), n - 1)

\* The number of elements of an array of the given shape.
RECURSIVE NumElements(_)
NumElements(shape) ==
  IF shape = <<>> THEN 1 ELSE Head(shape) * NumElements(Tail(shape))

\* What generate returns or raises, and the states of the generator it was
\* given and of numpy.random that it leaves.
Generated(data, shape, state, global) ==
  [exc |-> "none", value |-> [shape |-> shape, data |-> data],
   rng |-> state, numpy_random |-> global]
GenerateRaised(exc, state, global) ==
  [exc |-> exc, value |-> None, rng |-> state, numpy_random |-> global]

\* rng.normal(mean, std, size=shape) and rng.uniform(low, high, size=shape)
RngNormal(state, mean, std, shape) ==
  [i \in 1..NumElements(shape) |->
     RAdd(mean, RMul(std, Rat(2 * Advanced(state, i - 1) + 1 - Modulus, 2)))]
RngUniform(state, low, high, shape) ==
  [i \in 1..NumElements(shape) |->
     RAdd(low, RMul(RSub(high, low), Rat(Advanced(state, i - 1), Modulus)))]

\* numpy.random.choice(n, k, replace=False): k distinct indices below n,
\* drawn from the global generator.
NumpyRandomChoice(global, n, k) == [j \in 1..k |-> (global + j - 1) % n]

\* Constant.generate
ConstantGenerate(self, state, global, shape) ==
  Generated([i \in 1..NumElements(shape) |-> self.constant], shape, state,
            global)

\* IsotropicGaussian.generate
IsotropicGaussianGenerate(self, state, global, shape) ==
  Generated(RngNormal(state, self.mean, self.std, shape), shape,
            Advanced(state, NumElements(shape)), global)

\* Uniform.generate
UniformGenerate(self, state, global, shape) ==
  LET w == RDiv(self.width, Whole(2))
  IN  Generated(RngUniform(state, RSub(self.mean, w), RAdd(self.mean, w),
                           shape),
                shape, Advanced(state, NumElements(shape)), global)

\* Identity.generate
IdentityGenerate(self, state, global, shape) ==
  IF Len(shape) # 2 THEN GenerateRaised("ValueError", state, global)
  ELSE Generated([i \in 1..NumElements(shape) |->
                    IF (i - 1) \div shape[2] = (i - 1) % shape[2]
                    THEN self.mult ELSE Whole(0)],
                 shape, state, global)

\* GlorotBengio.generate
GlorotBengioGenerate(self, state, global, shape) ==
  LET w == RSqrt(RDiv(self.scale, Whole(shape[Len(shape)])))
  IN  Generated(IF self.normal
                THEN RngNormal(state, Whole(0), w, shape)
                ELSE RngUniform(state, RSub(Whole(0), w), w, shape),
                shape, Advanced(state, NumElements(shape)), global)

\* The loop of Sparse.generate from row i on: the positions of each row
\* are chosen by numpy.random.choice.
RECURSIVE SparseRows(_, _, _, _, _, _)
SparseRows(weights, values, i, shape, num_init, global) ==
  IF i > shape[1] THEN [exc |-> "none", data |-> weights, global |-> global]
  ELSE IF Len(shape) < 2
  THEN [exc |-> "IndexError", data |-> weights, global |-> global]
  ELSE IF num_init > shape[2]
  THEN [exc |-> "ValueError: larger sample than population",
        data |-> weights, global |-> global]
  ELSE LET random_indices == NumpyRandomChoice(global, shape[2], num_init)
           row == [k \in 1..Len(weights) |->
                     IF /\ (k - 1) \div shape[2] = i - 1
                        /\ \E j \in 1..num_init :
                             random_indices[j] = (k - 1) % shape[2]
                     THEN LET j == CHOOSE c \in 1..num_init :
                                     random_indices[c] = (k - 1) % shape[2]
                          IN  values[(i - 1) * num_init + j]
                     ELSE weights[k]]
       IN  SparseRows(row, values, i + 1, shape, num_init, Advance(global))

RECURSIVE Generate(_, _, _, _)

\* Sparse.generate; num_init is an int or a float.
SparseFill(self, weights, num_init, shape) ==
  LET values == Generate(self.weights_init, weights.rng,
                         weights.numpy_random, <<shape[1], num_init>>)
  IN  IF values.exc # "none" THEN values
      ELSE LET rows == SparseRows(weights.value.data, values.value.data, 1,
                                  shape, num_init, values.numpy_random)
           IN  IF rows.exc # "none"
               THEN GenerateRaised(rows.exc, values.rng, rows.global)
               ELSE Generated(rows.data, shape, values.rng, rows.global)

SparseGenerate(self, state, global, shape) ==
  LET weights == Generate(self.sparse_init, state, global, shape)
  IN  IF weights.exc # "none" THEN weights
      ELSE IF self.num_init.isint
      THEN IF ~(self.num_init.v[1] > 0)
           THEN GenerateRaised("ValueError", weights.rng, weights.numpy_random)
           ELSE SparseFill(self, weights, self.num_init.v[1], shape)
      ELSE IF ~(RLeq(self.num_init.v, Whole(1))
                /\ RLess(Whole(0), self.num_init.v))
      THEN GenerateRaised("ValueError", weights.rng, weights.numpy_random)
      ELSE IF Len(shape) < 2
      THEN GenerateRaised("IndexError", weights.rng, weights.numpy_random)
      ELSE SparseFill(self, weights,
                      (self.num_init.v[1] * shape[2]) \div self.num_init.v[2],
                      shape)

\* init.generate(rng, shape), by the class of init.
Generate(self, state, global, shape) ==
  CASE self.kind = "Constant" -> ConstantGenerate(self, state, global, shape)
    [] self.kind = "IsotropicGaussian" ->
         IsotropicGaussianGenerate(self, state, global, shape)
    [] self.kind = "Uniform" -> UniformGenerate(self, state, global, shape)
    [] self.kind = "Identity" -> IdentityGenerate(self, state, global, shape)
    [] self.kind = "GlorotBengio" ->
         GlorotBengioGenerate(self, state, global, shape)
    [] self.kind = "Sparse" -> SparseGenerate(self, state, global, shape)

\* The initialization schemes a caller builds.
ConstantOf(c) == [kind |-> "Constant", constant |-> c]
IsotropicGaussianDefault ==
  [kind |-> "IsotropicGaussian", std |-> Whole(1), mean |-> Whole(0)]
UniformOf(width) ==
  [kind |-> "Uniform", mean |-> Whole(0), width |-> width]
SparseOf(num_init, weights_init) ==
  [kind |-> "Sparse", num_init |-> num_init, weights_init |-> weights_init,
   sparse_init |-> ConstantOf(Whole(0))]
IntArg(k) == [isint |-> TRUE, v |-> Whole(k)]
FloatArg(x) == [isint |-> FALSE, v |-> x]

Schemes ==
  {ConstantOf(Whole(1)), IsotropicGaussianDefault, UniformOf(Whole(1)),
   [kind |-> "Identity", mult |-> Whole(1)],
   [kind |-> "GlorotBengio", scale |-> Whole(2), normal |-> FALSE],
   [kind |-> "GlorotBengio", scale |-> Whole(2), normal |-> TRUE],
   SparseOf(IntArg(1), ConstantOf(Whole(1))),
   SparseOf(IntArg(1), UniformOf(Whole(1))),
   SparseOf(FloatArg(Half), IsotropicGaussianDefault),
   SparseOf(IntArg(0), ConstantOf(Whole(1))),
   [kind |-> "Sparse", num_init |-> IntArg(2),
    weights_init |-> ConstantOf(Whole(1)),
    sparse_init |-> UniformOf(Whole(1))]}

Shapes == {<<2, 2>>, <<1, 2>>, <<2>>}

\* The caller holds two RandomState objects made from one seed; the global
\* generator of numpy is in some state of its own.
InitGenerate ==
  /\ \E seed \in 0..1 : rng = <<seed, seed>>
  /\ numpy_random \in 0..1
  /\ shared = <<>>
  /\ rule = None
  /\ made = [arg |-> None, heap |-> <<>>]
  /\ last = [op |-> "new", exc |-> "none", arg |-> None, updates |-> <<>>,
             function |-> None, shared |-> <<>>]
  /\ NoAlgorithm
  /\ hist = <<>>
  /\ ret = None
  /\ nbatch = 0 /\ nreg = 0 /\ ninit = 0 /\ ncalls = 0

\* init.generate(rng[k], shape); the calls made are kept with the states
\* they found and with what they returned.
GenerateCall ==
  /\ ncalls < MaxRuleCalls
  /\ \E init \in Schemes, k \in 1..Len(rng), shape \in Shapes :
       LET r == Generate(init, rng[k], numpy_random, shape)
       IN  /\ rng' = [rng EXCEPT ![k] = r.rng]
           /\ numpy_random' = r.numpy_random
           /\ ret' = r.value
           /\ last' = Called("generate", r.exc, <<init, k, shape>>)
           /\ hist' = Append(hist, [init |-> init, shape |-> shape,
                                    rng |-> rng[k],
                                    numpy_random |-> numpy_random,
                                    exc |-> r.exc, out |-> r.value])
  /\ ncalls' = ncalls + 1
  /\ UNCHANGED <<algorithm, shared, rule, made, nbatch, nreg, ninit>>

\* Other code of the process draws from numpy.random.
DrawElsewhere ==
  /\ nreg < MaxRegistrations
  /\ numpy_random' = Advance(numpy_random)
  /\ nreg' = nreg + 1
  /\ UNCHANGED <<algorithm, shared, rule, made, last, hist, ret, nbatch,
                 ninit, ncalls, rng>>

NextGenerate ==
  \/ GenerateCall
  \/ DrawElsewhere

SpecGenerate == InitGenerate /\ [][NextGenerate]_vars

\* C30: generate(rng, shape) is a function of the state of rng and of
\* shape: two calls on one initialization scheme with generators in the
\* same state and with the same shape return equal arrays (or fail
\* alike), whatever the state of numpy.random; for Sparse the positions
\* filled in each row are equal too.
C30_GenerateReadsRngOnly ==
  \A m, n \in 1..Len(hist) :
    (/\ hist[m].init = hist[n].init
     /\ hist[m].rng = hist[n].rng
     /\ hist[m].shape = hist[n].shape)
      => hist[m].exc = hist[n].exc /\ hist[m].out = hist[n].out

====
